---- MODULE Spec2Model ----
(***************************************************************************)
(* Firmware core of the USB mixed-signal instrument (oscilloscope,         *)
(* waveform generator, logic analyzer): the command decoder               *)
(* GotCDC_64B_Packet, the main scheduling loop of main(), and the          *)
(* interrupt callbacks that share state with it.                           *)
(*                                                                         *)
(* Execution model: one core.  The main loop advances through the program  *)
(* positions of one iteration (pc); an interrupt handler runs between two  *)
(* main-loop positions and runs to completion before the main loop         *)
(* resumes.  The command decoder runs in the USB receive interrupt; it is  *)
(* split into entry / dispatch / return so that the value of pauseTransmit *)
(* during the handling is a state of the model.                            *)
(*                                                                         *)
(* Not modelled: the debug/LED pins PD4..PD7, the contents of the ADC      *)
(* sample buffers (written by DMA hardware), peripheral initialisation.    *)
(***************************************************************************)
EXTENDS Integers, Sequences, FiniteSets, TLC

\* ------------------------------------------------------------------ bounds
\* Frames the host sends in one run.
MaxFrames == 2
\* Main-loop iterations (scheduler quanta) in one run.
MaxQuanta == 2
\* Hardware interrupts (timer ticks, capture clock, watchdogs, DMA) in one run.
MaxIrq == 1

\* ------------------------------------------------------- program constants
ADC_BUFF == 30000
LOGIC_BUFF == 30000
datalength == 8
NoData == 40000
ShadowStep == 100
ShadowLimit == 30000
triggerDurationInit == 100
AWG_SAMPLES == 4096
AWG_NUM_CHAN == 2
HS_STRING_LEN == 4
HS_STRING == <<73, 78, 73, 84>>
ACK_STRING == <<83, 84, 77, 65, 87, 71, 50, 51>>
PacketLen == 64
ADC_ISR_AWD1 == 128

U8(x) == x % 256
U16(x) == x % 65536

\* enum triggerStates{triggerState, postTrigger, preTrigger, noTrigger}
triggerState == "triggerState"
postTrigger == "postTrigger"
preTrigger == "preTrigger"
noTrigger == "noTrigger"

VARIABLES
  \* main.c globals shared by the main loop and the interrupt handlers
  pc, ADCstate, Logicstate, adcpos, shadowCount, logicpos, adcsend, logicsend,
  triggerType, firstTrigger, pauseTransmit, fullcomplete, primask,
  \* logic capture
  pastValue, logicWritePointer, Logic_buff, trigPin, trigEdge,
  period16, prescaler16, period32,
  \* peripheral state the code programs
  hw, tim, gpio,
  \* command decoder (DACprocess.c)
  cdc, rx, BULK_BUFF_RECV, BULK_BUFF, numSamples, phaseARR, ARR_hold, awg_lut,
  \* observation: what the current handler invocation / quantum did
  \* (txlen: byte counts handed to CDC_Transmit_FS by the handler; lastAcq: the
  \* AcquisitionSet frame handled last; awdStage: the watchdog events seen by
  \* the ADC interrupt handlers since the oscilloscope was last armed;
  \* portRead: the value of GPIOF->IDR the capture callback read last)
  handled, acks, diags, txlen, lastAcq, awdStage, portRead, q, budget,
  \* the previous-design logic analyzer (Previous_Designs/Logic-Analyzer), a
  \* separate program: its globals, timer enables and observation fields
  prevDesign

mainVars == <<pc, ADCstate, Logicstate, adcpos, shadowCount, logicpos, adcsend,
              logicsend, triggerType, firstTrigger, pauseTransmit, fullcomplete,
              primask>>
logicVars == <<pastValue, logicWritePointer, Logic_buff, trigPin,
               trigEdge, period16, prescaler16, period32>>
periphVars == <<hw, tim, gpio>>
cdcVars == <<cdc, rx, BULK_BUFF_RECV, BULK_BUFF, numSamples, phaseARR, ARR_hold,
             awg_lut>>
obsVars == <<handled, acks, diags, txlen, lastAcq, awdStage, portRead, q,
             budget>>
vars == <<mainVars, logicVars, periphVars, cdcVars, obsVars, prevDesign>>

\* ------------------------------------------------------------------ frames
\* A received 64-byte frame: the tag byte and the fields of RECV_Packet the
\* decoder reads for that tag.  In table mode the whole frame is copied.
HandshakeFrames ==
  { [tag |-> 0, handshake_string |-> m] :
      m \in { HS_STRING, <<73, 78, 73, 85>> } }

AwgFrames ==
  { [tag |-> 1, channel |-> 0, gain |-> 1, PSC |-> 2, ARR |-> 100,
     CCR_offset |-> 2048, numSamples |-> 16, phaseARR |-> 50],
    [tag |-> 1, channel |-> 1, gain |-> 0, PSC |-> 5, ARR |-> 300,
     CCR_offset |-> 1000, numSamples |-> 64, phaseARR |-> 10] }

AdcFrame(ch, mode, trig) ==
  [tag |-> 2, channel |-> ch, adcmode |-> mode, triggermode |-> trig,
   triggerval |-> 2000, sampletime |-> 0, offset |-> ch, attenuation |-> 1,
   amp10 |-> 0, amp5 |-> 1, amp2_5 |-> 0, amp1 |-> 1 - ch]

AdcFrames == { AdcFrame(0, 0, 0), AdcFrame(0, 3, 1), AdcFrame(1, 12, 2) }

LogicFrames ==
  { [tag |-> 3, control |-> 1, triggerpin |-> 1, triggeredge |-> 1,
     period16 |-> 1000, prescaler |-> 3, period32 |-> 36000],
    [tag |-> 3, control |-> 0, triggerpin |-> 2, triggeredge |-> 0,
     period16 |-> 65535, prescaler |-> 1, period32 |-> 36000] }

UnknownFrames == { [tag |-> 4], [tag |-> 255] }

Frames == HandshakeFrames \cup AwgFrames \cup AdcFrames \cup LogicFrames
            \cup UnknownFrames

\* Values the logic port (GPIOF->IDR) is sampled at.
PortValues == { 0, 3 }

\* Inputs of the specifications that look at one part of the firmware with
\* more of its input space.
\* SpecLogic: LogicSet frames arming either edge (and an edge code that is
\* neither) on pin mask 1 or 2, and all values of the two lowest port pins.
EdgeFrames ==
  LogicFrames \cup
  { [tag |-> 3, control |-> 1, triggerpin |-> p, triggeredge |-> e,
     period16 |-> 1000, prescaler |-> 3, period32 |-> 36000] :
      p \in {1, 2}, e \in {0, 1, 2} }

EdgePortValues == 0..3

\* SpecCdc: AcquisitionSet frames for every mode code 0..13 and for 128 and
\* 255, and one whose six front-end values differ from AdcFrame's; WaveformSet
\* frames for channel 0 whose sample count is not a multiple of 32 or exceeds
\* AWG_SAMPLES; a LogicSet frame with field values above 255.
AcqModes == 0..13 \cup {128, 255}

AwgCounts == { 33, 4097 }

AwgCountFrame(n) ==
  [tag |-> 1, channel |-> 0, gain |-> 1, PSC |-> 2, ARR |-> 100,
   CCR_offset |-> 2048, numSamples |-> n, phaseARR |-> 50]

\* A LogicSet frame whose pin mask selects pin 8, whose edge code has a bit
\* above bit 7 and whose 32-bit period does not fit 16 bits.
WidePinFrame ==
  [tag |-> 3, control |-> 0, triggerpin |-> 256, triggeredge |-> 257,
   period16 |-> 65535, prescaler |-> 65535, period32 |-> 70000]

\* AcquisitionSet commands whose 16-bit triggerval lies near either end of
\* the 12-bit conversion range.
LevelFrames ==
  { [AdcFrame(0, 3, 1) EXCEPT !.triggerval = 10],
    [AdcFrame(1, 12, 2) EXCEPT !.triggerval = 4090] }

CdcFrames ==
  Frames \cup { AdcFrame(0, m, 0) : m \in AcqModes }
         \cup { [AdcFrame(1, 7, 0) EXCEPT !.offset = 0, !.attenuation = 0,
                                          !.amp10 = 1, !.amp5 = 0, !.amp2_5 = 1] }
         \cup { AwgCountFrame(n) : n \in AwgCounts }
         \cup { WidePinFrame }
         \cup LevelFrames

\* ----------------------------------------------------------------- helpers
RECURSIVE BitAnd(_, _)
BitAnd(a, b) ==
  IF a = 0 \/ b = 0 THEN 0
  ELSE (IF a % 2 = 1 /\ b % 2 = 1 THEN 1 ELSE 0) + 2 * BitAnd(a \div 2, b \div 2)

\* Memory that starts zeroed, kept as the function of its non-zero cells.
Store(mem, i, v) ==
  IF v = 0 THEN [j \in (DOMAIN mem) \ {i} |-> mem[j]]
  ELSE [j \in (DOMAIN mem) \cup {i} |-> IF j = i THEN v ELSE mem[j]]

Zeroed == [j \in {} |-> 0]

\* HAL_GPIO_WritePin(port, pin, state): any non-zero state sets the pin.
PinLevel(v) == IF v # 0 THEN 1 ELSE 0

\* ------------------------------------------------------------------- Init
\* Peripheral state after the start-up code of main() (lines 238-301).
InitHw ==
  [adcOn |-> TRUE, dmaIT |-> TRUE,
   awd1ie |-> <<FALSE, FALSE>>, awd2ie |-> <<FALSE, FALSE>>,
   nvicADC1 |-> TRUE, pwmOn |-> FALSE, tim16On |-> FALSE,
   thr |-> << <<>>, <<>> >>, dacLen |-> <<2, 2>>, sampling |-> 0]

InitTim ==
  [t6arr |-> 7585, t6psc |-> 2, t6cnt |-> 0, t6en |-> TRUE,
   t7arr |-> 7585, t7psc |-> 2, t7cnt |-> 0, t7en |-> TRUE,
   ccr1 |-> 2048, ccr2 |-> 2048,
   t8psc |-> 24, t8arr |-> 1, t17psc |-> 499, t17arr |-> 9,
   t16per |-> 65535, t16psc |-> 1, t5per |-> 36000]

InitGpio ==
  [fe |-> [c \in 0..1 |-> [offset |-> 0, attenuation |-> 0, amp10 |-> 0,
                           amp5 |-> 0, amp2_5 |-> 0, amp1 |-> 0]],
   gain |-> <<0, 0>>]

NoFrame == [tag |-> -1]

\* Record of the current main-loop iteration: phase and cursors at its start
\* (mode0, adc0, logic0), whether an interrupt ran since, the ready flags and
\* the pauseTransmit value the send test read (rdy, paused), and for the
\* sendData call the frame, whether CDC_Transmit_FS reported busy for it, the
\* cursors, the oscilloscope phase and the shadow counter at the call;
\* dropped is the frame the iteration before this one lost to a busy transport
\* (NoFrame when it lost none or an interrupt ran since).
NoQuantum ==
  [mode0 |-> noTrigger, adc0 |-> 0, logic0 |-> 0, irq |-> FALSE, rdy |-> <<0, 0>>,
   paused |-> 0, sent |-> 0, frame |-> NoFrame, busy |-> FALSE, pos |-> <<0, 0>>,
   mode |-> noTrigger, sc |-> 0, dropped |-> NoFrame]

\* Previous_Designs/Logic-Analyzer: #define BUFFER_SIZE and the index mask
\* TwelveBit of enum NumBits.
BUFFER_SIZE == 4096
TwelveBit == 4095

\* The previous design after its start-up code: globals at their
\* initialisers, state = preTrigger, neither timer started.  (sent, idx: the
\* number of samples handed to CDC_Transmit_FS since the countdown fired and
\* the index of the last one, sent counted up to BUFFER_SIZE + 1; irq: capture
\* interrupts taken.  counter and cout are written and never read, and are
\* left out.)
PrevBoot ==
  [state |-> preTrigger, val |-> 0, bufferPointer |-> 0, buffer |-> Zeroed,
   trigger |-> 0, IncFlag |-> 0, trigPin |-> 0, trigEdge |-> 0,
   trigPointer |-> 0, xorResult |-> 0, pwmOn |-> FALSE, tim16On |-> FALSE,
   pa5 |-> 0, sent |-> 0, idx |-> 0, irq |-> 0]

\* State after the start-up code of main(): power-up.  (live: the run is not
\* cut off after MaxQuanta iterations of the main loop; see SpecLive.)
Boot ==
  [ADCstate |-> noTrigger, Logicstate |-> preTrigger, adcpos |-> 0,
   shadowCount |-> 0, logicpos |-> 0, triggerType |-> 0, pastValue |-> 0,
   logicWritePointer |-> 0, Logic_buff |-> Zeroed, trigPin |-> 0, trigEdge |-> 0,
   period16 |-> 65535, prescaler16 |-> 1, period32 |-> 36000,
   hw |-> InitHw, tim |-> InitTim, gpio |-> InitGpio,
   pc |-> "adc", primask |-> 0, BULK_BUFF |-> -1, BULK_BUFF_RECV |-> 0,
   numSamples |-> <<0, 0>>,
   phaseARR |-> <<0, 0>>, ARR_hold |-> <<0, 0>>, awg_lut |-> Zeroed,
   lastAcq |-> NoFrame, firstTrigger |-> 0, awdStage |-> 0, portRead |-> 0,
   live |-> FALSE, prevDesign |-> PrevBoot]

\* ------------------------------------------------- command decoder (USB rx)
\* No interrupt handler is active: the main loop or a new interrupt may run.
Idle == cdc = "idle"

Interrupted == [q EXCEPT !.irq = TRUE]

\* Variant: the pending-table byte count is not consulted.
InCommandModeAnyCount(recv) == recv >= 0

\* `if (!BULK_BUFF_RECV)`: the frame is a command, not waveform-table data.
InCommandMode(recv) == recv = 0

\* Variant: the acknowledgment is transmitted twice.
SendAckTwice(n) == n + 2

\* SendAck(): one more acknowledgment frame handed to CDC_Transmit_FS.
SendAck(n) == n + 1

\* Variant: the match loop stops one byte short.
HandshakeMatchPrefix(magic) ==
  \A i \in 1..(HS_STRING_LEN - 1) : magic[i] = HS_STRING[i]

\* The match loop of the Handshake branch.
HandshakeMatch(magic) ==
  \A i \in 1..HS_STRING_LEN : magic[i] = HS_STRING[i]

\* Values written to pauseTransmit on entry and on return.
PauseOnEntry == 1
\* Variant: the flag is not cleared on return.
PauseStaysSet == PauseOnEntry
PauseOnReturn == 0

\* Number of table bytes a WaveformSet command announces (uint16_t).
BulkBytes(n) == IF n < 32 THEN 128 ELSE U16(n * 2)

\* Variant: the sampling-time code is added to the one in effect.
SamplingAccumulate(cur, code) == (cur + code) % 8

\* changeADCmode / changeSamplingtime: the timer registers and sampling-time
\* code the mode leaves, given the registers before.
SamplingAfter(cur, code) == IF code \in 0..7 THEN code ELSE cur

ModeTable ==
  [m \in 1..11 |->
     CASE m = 1 -> <<5 - 1, 25 - 1, 0>>
       [] m = 2 -> <<10 - 1, 50 - 1, 2>>
       [] m = 3 -> <<20 - 1, 100 - 1, 4>>
       [] m = 4 -> <<50 - 1, 250 - 1, 5>>
       [] m = 5 -> <<100 - 1, 500 - 1, 6>>
       [] m = 6 -> <<200 - 1, 1000 - 1, 7>>
       [] m = 7 -> <<500 - 1, 2500 - 1, 7>>
       [] m = 8 -> <<1000 - 1, 5000 - 1, 7>>
       [] m = 9 -> <<2000 - 1, 10000 - 1, 7>>
       [] m = 10 -> <<5000 - 1, 25000 - 1, 7>>
       [] m = 11 -> <<10000 - 1, 50000 - 1, 7>>]

\* case 0 of changeADCmode.
ModeZero(t) ==
  [t EXCEPT !.t8psc = 25 - 1, !.t8arr = 2 - 1, !.t17psc = 500 - 1, !.t17arr = 10 - 1]

\* Variant: the default case leaves the timers as they are.
ModeDefaultKeep(t) == t

\* default case of changeADCmode.
ModeDefault(t) ==
  [t EXCEPT !.t8psc = 25 - 1, !.t8arr = 2 - 1, !.t17psc = 500 - 1, !.t17arr = 10 - 1]

changeADCmode(t, mode) ==
  CASE mode = 0 -> ModeZero(t)
    [] mode \in 1..11 ->
         [t EXCEPT !.t8arr = ModeTable[mode][1], !.t17arr = ModeTable[mode][2]]
    [] OTHER -> ModeDefault(t)

ModeSampling(cur, mode) ==
  IF mode \in 1..11 THEN SamplingAfter(cur, ModeTable[mode][3])
  ELSE SamplingAfter(cur, 0)

\* Arguments (C int values) of the four LL_ADC_SetAnalogWDThresholds calls of
\* one channel; `>>4` on an int is the floor division by 16.
Thresholds(tv, trig) ==
  IF trig = 1
  THEN [awd1hi |-> tv + 15, awd1lo |-> tv - 15,
        awd2hi |-> (tv - 35) \div 16, awd2lo |-> (tv - 65) \div 16]
  ELSE [awd1hi |-> tv + 15, awd1lo |-> tv - 15,
        awd2hi |-> (tv + 65) \div 16, awd2lo |-> (tv + 35) \div 16]

\* Phase a trigger mode arms the oscilloscope into.
TriggerModeState(trig) == IF trig \in {1, 2} THEN preTrigger ELSE noTrigger

\* sizeof(TRANS_Packet): packed, one tag byte, the acknowledgment string and
\* the padding array.
ACK_STRING_LEN == 8
SizeofTransPacket == 1 + ACK_STRING_LEN + (64 - ACK_STRING_LEN - 1)

\* The string literal "nopacket" with its terminating NUL; sizeof is its length.
NoPacketString == <<110, 111, 112, 97, 99, 107, 101, 116, 0>>
SizeofNoPacket == Len(NoPacketString)

\* sizeof(DATA_Packet), the outbound data frame.
SizeofDataPacket == 64

\* CDC_Transmit_FS(&pack, sizeof(TRANS_Packet)) of SendAck and
\* CDC_Transmit_FS("nopacket", sizeof("nopacket")): the byte count handed over.
TransmitAck(lens) == Append(lens, SizeofTransPacket)
TransmitNoPacket(lens) == Append(lens, SizeofNoPacket)

\* Variant: Error_Handler leaves the interrupt mask as it is.
disable_irq_missing(pm) == pm

\* __disable_irq(): PRIMASK is set.
disable_irq(pm) == 1

\* Outcome of the HAL initialisation calls of changeLogic(): every call
\* returns HAL_OK, or the first call that does not is in MX_TIM16_Init or in
\* MX_TIM5_Init, which then enters Error_Handler.
HalOutcomes == { "ok", "tim16", "tim5" }

\* CDC receive callback enters GotCDC_64B_Packet with frame f.
CDC_Receive(f) ==
  /\ Idle
  /\ primask = 0
  /\ budget.frames < MaxFrames
  /\ pauseTransmit' = PauseOnEntry
  /\ rx' = f
  /\ cdc' = "dispatch"
  /\ handled' = "none"
  /\ acks' = 0
  /\ diags' = 0
  /\ txlen' = <<>>
  /\ UNCHANGED <<lastAcq, awdStage, portRead, prevDesign>>
  /\ q' = Interrupted
  /\ budget' = [budget EXCEPT !.frames = @ + 1]
  /\ UNCHANGED <<pc, ADCstate, Logicstate, adcpos, shadowCount, logicpos, adcsend,
                 logicsend, triggerType, firstTrigger, fullcomplete, primask>>
  /\ UNCHANGED <<logicVars, periphVars>>
  /\ UNCHANGED <<BULK_BUFF_RECV, BULK_BUFF, numSamples, phaseARR, ARR_hold, awg_lut>>

HandleHandshake ==
  /\ cdc = "dispatch"
  /\ InCommandMode(BULK_BUFF_RECV)
  /\ rx.tag = 0
  /\ acks' = IF HandshakeMatch(rx.handshake_string) THEN SendAck(acks) ELSE acks
  /\ txlen' = IF HandshakeMatch(rx.handshake_string) THEN TransmitAck(txlen)
              ELSE txlen
  /\ handled' = "Handshake"
  /\ cdc' = "return"
  /\ UNCHANGED <<mainVars, logicVars, periphVars>>
  /\ UNCHANGED <<rx, BULK_BUFF_RECV, BULK_BUFF, numSamples, phaseARR, ARR_hold,
                 awg_lut, diags, lastAcq, awdStage, portRead, prevDesign, q, budget>>

\* Variant: the phase offset saturates at zero instead of wrapping.
PhaseCountClamped(phase, arrOther) ==
  IF phase >= arrOther THEN phase - arrOther ELSE 0

\* `TIMx->CNT = phaseARR[this] - ARR_hold[other]` on a 16-bit counter.
PhaseCount(phase, arrOther) == U16(phase - arrOther)

\* Variant: the timers are enabled before their counters are set.
WaveformSetOpsEnableFirst ==
  << "disable6", "disable7", "dmaStop1", "dmaStop2", "dmaStart1", "dmaStart2",
     "ug6", "ug7", "enable6", "enable7", "cnt6", "cnt7" >>

\* The restart sequence of the WaveformSet branch, in program order:
\* __HAL_TIM_DISABLE x2, HAL_DAC_Stop_DMA x2, HAL_DAC_Start_DMA x2,
\* EGR = UG x2, CNT = ... x2, the two writes of CR1 | CEN.
WaveformSetOps ==
  << "disable6", "disable7", "dmaStop1", "dmaStop2", "dmaStart1", "dmaStart2",
     "ug6", "ug7", "cnt6", "cnt7", "enable6", "enable7" >>

\* Effect of one operation of the sequence on the generator timers (t) and
\* on the lengths of the running lookup-table transfers (dac); ns, ph, ah are
\* numSamples, phaseARR and ARR_hold as the branch has left them.
AwgOp(op, st, ns, ph, ah) ==
  CASE op = "disable6" -> [st EXCEPT !.t.t6en = FALSE]
    [] op = "disable7" -> [st EXCEPT !.t.t7en = FALSE]
    [] op = "dmaStop1" -> [st EXCEPT !.dac[1] = 0]
    [] op = "dmaStop2" -> [st EXCEPT !.dac[2] = 0]
    [] op = "dmaStart1" -> [st EXCEPT !.dac[1] = ns[1]]
    [] op = "dmaStart2" -> [st EXCEPT !.dac[2] = ns[2]]
    [] op = "ug6" -> [st EXCEPT !.t.t6cnt = 0]
    [] op = "ug7" -> [st EXCEPT !.t.t7cnt = 0]
    [] op = "cnt6" -> [st EXCEPT !.t.t6cnt = PhaseCount(ph[1], ah[2])]
    [] op = "cnt7" -> [st EXCEPT !.t.t7cnt = PhaseCount(ph[2], ah[1])]
    [] op = "enable6" -> [st EXCEPT !.t.t6en = TRUE]
    [] op = "enable7" -> [st EXCEPT !.t.t7en = TRUE]

RECURSIVE RunOps(_, _, _, _, _)
RunOps(ops, st, ns, ph, ah) ==
  IF ops = << >> THEN st
  ELSE RunOps(Tail(ops), AwgOp(Head(ops), st, ns, ph, ah), ns, ph, ah)

\* The timer registers after the parameter writes of the selected channel.
AwgParams(t, f) ==
  IF f.channel = 0
  THEN [t EXCEPT !.ccr1 = f.CCR_offset, !.t6arr = f.ARR, !.t6psc = f.PSC]
  ELSE [t EXCEPT !.ccr2 = f.CCR_offset, !.t7arr = f.ARR, !.t7psc = f.PSC]

HandleWaveformSet ==
  /\ cdc = "dispatch"
  /\ InCommandMode(BULK_BUFF_RECV)
  /\ rx.tag = 1
  /\ LET chan == rx.channel
         ns == [numSamples EXCEPT ![chan + 1] = rx.numSamples]
         ph == [phaseARR EXCEPT ![chan + 1] = rx.phaseARR]
         ah == [ARR_hold EXCEPT ![chan + 1] = rx.ARR]
         r == RunOps(WaveformSetOps, [t |-> AwgParams(tim, rx), dac |-> hw.dacLen],
                     ns, ph, ah)
     IN /\ acks' = SendAck(acks)
        /\ txlen' = TransmitAck(txlen)
        /\ numSamples' = ns
        /\ phaseARR' = ph
        /\ ARR_hold' = ah
        /\ BULK_BUFF_RECV' = BulkBytes(ns[chan + 1])
        /\ BULK_BUFF' = chan * (AWG_SAMPLES * 2)
        /\ gpio' = [gpio EXCEPT !.gain[chan + 1] = PinLevel(rx.gain)]
        /\ hw' = [hw EXCEPT !.dacLen = r.dac]
        /\ tim' = r.t
  /\ handled' = "WaveformSet"
  /\ cdc' = "return"
  /\ UNCHANGED <<mainVars, logicVars, rx, awg_lut, diags, lastAcq, awdStage, portRead, prevDesign, q, budget>>

HandleAcquisitionSet ==
  /\ cdc = "dispatch"
  /\ InCommandMode(BULK_BUFF_RECV)
  /\ rx.tag = 2
  /\ LET chan == rx.channel
         trig == rx.triggermode
         adc == IF chan = 0 THEN 1 ELSE 2
         pins == [offset |-> PinLevel(rx.offset),
                  attenuation |-> PinLevel(rx.attenuation),
                  amp10 |-> PinLevel(rx.amp10), amp5 |-> PinLevel(rx.amp5),
                  amp2_5 |-> PinLevel(rx.amp2_5), amp1 |-> PinLevel(rx.amp1)]
         h1 == [hw EXCEPT !.sampling = ModeSampling(@, rx.adcmode), !.adcOn = TRUE]
         h2 == CASE trig = 0 ->
                      [h1 EXCEPT !.awd1ie = <<FALSE, FALSE>>,
                                 !.awd2ie = <<FALSE, FALSE>>, !.dmaIT = TRUE]
                 [] trig \in {1, 2} ->
                      [h1 EXCEPT !.dmaIT = FALSE,
                                 !.thr[adc] = Thresholds(rx.triggerval, trig),
                                 !.awd1ie[adc] = TRUE, !.awd2ie[adc] = TRUE]
                 [] OTHER -> h1
     IN /\ gpio' = IF chan \in {0, 1} THEN [gpio EXCEPT !.fe[chan] = pins] ELSE gpio
        /\ tim' = changeADCmode(tim, rx.adcmode)
        /\ hw' = h2
        /\ ADCstate' = TriggerModeState(trig)
  /\ acks' = SendAck(acks)
  /\ txlen' = TransmitAck(txlen)
  /\ lastAcq' = rx
  /\ awdStage' = 0
  \* ADCstart()
  /\ adcpos' = 0
  /\ shadowCount' = 0
  /\ handled' = "AcquisitionSet"
  /\ cdc' = "return"
  /\ UNCHANGED <<pc, Logicstate, logicpos, adcsend, logicsend, triggerType,
                 firstTrigger, pauseTransmit, fullcomplete, primask>>
  /\ UNCHANGED <<logicVars, rx, BULK_BUFF_RECV, BULK_BUFF, numSamples, phaseARR,
                 ARR_hold, awg_lut, diags, portRead, prevDesign, q, budget>>

\* LogicSet.  With control = 1 the handler runs changeLogic(), whose HAL
\* initialisation calls each end in Error_Handler when they do not return
\* HAL_OK; MX_TIM5_Init clears Logic_buff before its first HAL call.
\* Error_Handler sets PRIMASK and never returns.
HandleLogicSet(hal) ==
  /\ cdc = "dispatch"
  /\ InCommandMode(BULK_BUFF_RECV)
  /\ rx.tag = 3
  /\ acks' = SendAck(acks)
  /\ txlen' = TransmitAck(txlen)
  /\ trigPin' = U8(rx.triggerpin)
  /\ trigEdge' = U8(rx.triggeredge)
  /\ period16' = rx.period16
  /\ prescaler16' = rx.prescaler
  /\ period32' = rx.period32
  /\ handled' = "LogicSet"
  /\ IF rx.control = 1
     THEN /\ tim' = CASE hal = "tim16" -> tim
                      [] hal = "tim5" ->
                           [tim EXCEPT !.t16per = rx.period16,
                                       !.t16psc = rx.prescaler]
                      [] OTHER ->
                           [tim EXCEPT !.t16per = rx.period16,
                                       !.t16psc = rx.prescaler,
                                       !.t5per = rx.period32]
          /\ Logic_buff' = IF hal = "tim16" THEN Logic_buff ELSE Zeroed
          /\ hw' = [hw EXCEPT !.pwmOn = (hal = "ok"), !.tim16On = FALSE]
          /\ Logicstate' = IF hal = "ok" THEN preTrigger ELSE Logicstate
          /\ cdc' = IF hal = "ok" THEN "return" ELSE "halt"
          /\ primask' = IF hal = "ok" THEN primask ELSE disable_irq(primask)
     ELSE /\ hal = "ok"
          /\ tim' = tim
          /\ Logic_buff' = Logic_buff
          /\ hw' = [hw EXCEPT !.pwmOn = FALSE, !.tim16On = FALSE]
          /\ Logicstate' = preTrigger
          /\ cdc' = "return"
          /\ primask' = primask
  /\ UNCHANGED <<pc, ADCstate, adcpos, shadowCount, logicpos, adcsend, logicsend,
                 triggerType, firstTrigger, pauseTransmit, fullcomplete>>
  /\ UNCHANGED <<pastValue, logicWritePointer, gpio>>
  /\ UNCHANGED <<rx, BULK_BUFF_RECV, BULK_BUFF, numSamples, phaseARR, ARR_hold,
                 awg_lut, diags, lastAcq, awdStage, portRead, prevDesign, q, budget>>

\* Variant: the unknown-tag branch re-arms the logic analyzer as LogicSet does.
HandleUnknownRearm ==
  /\ cdc = "dispatch"
  /\ InCommandMode(BULK_BUFF_RECV)
  /\ rx.tag \notin 0..3
  /\ diags' = diags + 1
  /\ txlen' = TransmitNoPacket(txlen)
  /\ handled' = "Unknown"
  /\ cdc' = "return"
  /\ Logicstate' = preTrigger
  /\ UNCHANGED <<pc, ADCstate, adcpos, shadowCount, logicpos, adcsend, logicsend,
                 triggerType, firstTrigger, pauseTransmit, fullcomplete, primask>>
  /\ UNCHANGED <<logicVars, periphVars>>
  /\ UNCHANGED <<rx, BULK_BUFF_RECV, BULK_BUFF, numSamples, phaseARR, ARR_hold,
                 awg_lut, acks, lastAcq, awdStage, portRead, prevDesign, q, budget>>

HandleUnknown ==
  /\ cdc = "dispatch"
  /\ InCommandMode(BULK_BUFF_RECV)
  /\ rx.tag \notin 0..3
  /\ diags' = diags + 1
  /\ txlen' = TransmitNoPacket(txlen)
  /\ handled' = "Unknown"
  /\ cdc' = "return"
  /\ UNCHANGED <<mainVars, logicVars, periphVars>>
  /\ UNCHANGED <<rx, BULK_BUFF_RECV, BULK_BUFF, numSamples, phaseARR, ARR_hold,
                 awg_lut, acks, lastAcq, awdStage, portRead, prevDesign, q, budget>>

\* The frame is waveform-table data: memcpy(BULK_BUFF, ptr, 64).
HandleTable ==
  /\ cdc = "dispatch"
  /\ ~InCommandMode(BULK_BUFF_RECV)
  /\ awg_lut' = [b \in (DOMAIN awg_lut) \cup {BULK_BUFF \div PacketLen} |->
                   IF b = BULK_BUFF \div PacketLen THEN rx ELSE awg_lut[b]]
  /\ BULK_BUFF' = BULK_BUFF + PacketLen
  /\ BULK_BUFF_RECV' = U16(BULK_BUFF_RECV - PacketLen)
  /\ acks' = IF U16(BULK_BUFF_RECV - PacketLen) = 0 THEN SendAck(acks) ELSE acks
  /\ txlen' = IF U16(BULK_BUFF_RECV - PacketLen) = 0 THEN TransmitAck(txlen)
              ELSE txlen
  /\ handled' = "Table"
  /\ cdc' = "return"
  /\ UNCHANGED <<mainVars, logicVars, periphVars>>
  /\ UNCHANGED <<rx, numSamples, phaseARR, ARR_hold, diags, lastAcq, awdStage, portRead, prevDesign, q, budget>>

CDC_Return ==
  /\ cdc = "return"
  /\ pauseTransmit' = PauseOnReturn
  /\ cdc' = "idle"
  /\ UNCHANGED <<pc, ADCstate, Logicstate, adcpos, shadowCount, logicpos, adcsend,
                 logicsend, triggerType, firstTrigger, fullcomplete, primask>>
  /\ UNCHANGED <<logicVars, periphVars>>
  /\ rx' = NoFrame
  /\ handled' = "none"
  /\ acks' = 0
  /\ diags' = 0
  /\ txlen' = <<>>
  /\ UNCHANGED <<BULK_BUFF_RECV, BULK_BUFF, numSamples, phaseARR, ARR_hold,
                 awg_lut, lastAcq, awdStage, portRead, prevDesign, q, budget>>

\* ------------------------------------------------------ main scheduling loop
\* Variant: the capacity test is off by one.
AdcPastCapacity(pos) == pos > ADC_BUFF

\* Variant: the stream is taken as complete one window early.
AdcNearCapacity(pos) == pos > ADC_BUFF - 1 - datalength

\* `adcpos > 30000-1` / `logicpos >= LOGIC_BUFF`: the cursor is at capacity.
AdcAtCapacity(pos) == pos > ADC_BUFF - 1

\* Variant: the capacity tested for is beyond the range of the cursor.
LogicNeverAtCapacity(pos) == pos >= LOGIC_BUFF + 65536

\* Variant: the logic stream is taken as complete two windows late.
LogicPastCapacity(pos) == pos >= LOGIC_BUFF + 2 * datalength

LogicAtCapacity(pos) == pos >= LOGIC_BUFF

\* `((shadowCount-adcpos)>0) & (pauseTransmit==0)` (int arithmetic).
FreeRunReady(sc, pos, paused) == (sc - pos > 0) /\ paused = 0

\* Variant: the cursor is advanced modulo the buffer length.
AdvanceCircular(pos) == (pos + datalength) % ADC_BUFF

\* `cursor += datalength` on a uint16_t.
Advance(pos) == U16(pos + datalength)

\* Variant: the send test looks at the oscilloscope flag only.
SendConditionAdcOnly(as, ls, paused) == as = 1 /\ paused = 0

\* `((adcsend==1) || (logicsend==1)) & (pauseTransmit==0)`
SendCondition(as, ls, paused) == (as = 1 \/ ls = 1) /\ paused = 0

\* Variant: the oscilloscope cursor is passed whether or not it is ready.
AdcArgCursor(as, pos) == pos

\* Arguments of the sendData call of the send block.
AdcArg(as, pos) == IF as = 1 THEN pos ELSE NoData
LogicArg(ls, pos) == IF ls = 1 THEN pos ELSE NoData

\* sendData: the frame built from the two offsets; the windows are the
\* datalength samples read from each buffer at the offset given.
DataFrame(adco, lgco) ==
  [tag |-> 5, adcpos |-> U16(adco), logicpos |-> U16(lgco),
   oscwin |-> adco, logicwin |-> lgco, len |-> datalength,
   bytes |-> SizeofDataPacket]

\* Variant: the post-trigger count is not waited for.
PostTriggerAtOnce(sc) == sc >= 0

\* `shadowCount>=triggerDuration`; triggerDuration is never written after its
\* initialisation.
PostTriggerReached(sc) == sc >= triggerDurationInit

\* Oscilloscope state switch (main.c 333-393), one step of the loop.
MainADC ==
  /\ Idle
  /\ pc = "adc"
  /\ budget.live \/ budget.quanta < MaxQuanta
  /\ budget' = IF budget.live THEN budget ELSE [budget EXCEPT !.quanta = @ + 1]
  /\ q' = [NoQuantum EXCEPT !.mode0 = ADCstate, !.adc0 = adcpos,
                             !.logic0 = logicpos,
                             !.dropped = IF q.sent = 1 /\ q.busy /\ ~q.irq
                                         THEN q.frame ELSE NoFrame]
  /\ pc' = "logic"
  /\ CASE ADCstate = noTrigger ->
            LET wrap == AdcAtCapacity(adcpos)
                pos1 == IF wrap THEN 0 ELSE adcpos
                sc1 == IF wrap THEN 0 ELSE shadowCount
                send1 == IF wrap THEN 0 ELSE adcsend
            IN /\ adcpos' = pos1
               /\ shadowCount' = sc1
               /\ adcsend' = IF FreeRunReady(sc1, pos1, pauseTransmit) THEN 1 ELSE send1
               /\ hw' = IF wrap THEN [hw EXCEPT !.adcOn = TRUE] ELSE hw
               /\ UNCHANGED <<ADCstate, triggerType>>
       [] ADCstate = preTrigger ->
            IF triggerType = 2
            THEN /\ adcpos' = 0
                 /\ shadowCount' = 0
                 /\ ADCstate' = triggerState
                 /\ UNCHANGED <<adcsend, triggerType, hw>>
            ELSE UNCHANGED <<adcpos, shadowCount, ADCstate, adcsend, triggerType, hw>>
       [] ADCstate = triggerState ->
            IF PostTriggerReached(shadowCount)
            THEN /\ hw' = [hw EXCEPT !.adcOn = FALSE]
                 /\ ADCstate' = postTrigger
                 /\ UNCHANGED <<adcpos, shadowCount, adcsend, triggerType>>
            ELSE UNCHANGED <<adcpos, shadowCount, ADCstate, adcsend, triggerType, hw>>
       [] ADCstate = postTrigger ->
            IF AdcAtCapacity(adcpos)
            THEN /\ adcsend' = 0
                 /\ adcpos' = 0
                 /\ shadowCount' = 0
                 /\ triggerType' = 0
                 /\ ADCstate' = preTrigger
                 /\ hw' = [hw EXCEPT !.adcOn = TRUE, !.nvicADC1 = TRUE]
            ELSE /\ adcsend' = IF pauseTransmit = 0 THEN 1 ELSE adcsend
                 /\ UNCHANGED <<adcpos, shadowCount, ADCstate, triggerType, hw>>
  /\ awdStage' = IF \/ (ADCstate = preTrigger /\ triggerType = 2)
                     \/ (ADCstate = postTrigger /\ AdcAtCapacity(adcpos))
                  THEN 0 ELSE awdStage
  /\ UNCHANGED <<Logicstate, logicpos, logicsend, firstTrigger, pauseTransmit,
                 fullcomplete, primask>>
  /\ UNCHANGED <<logicVars, tim, gpio, cdcVars, handled, acks, diags, txlen, lastAcq, portRead, prevDesign>>

\* Logic state switch (main.c 394-419).
MainLogic ==
  /\ Idle
  /\ pc = "logic"
  /\ pc' = "check"
  /\ IF Logicstate = postTrigger
     THEN IF LogicAtCapacity(logicpos)
          THEN /\ Logic_buff' = Zeroed
               /\ logicpos' = 0
               /\ logicsend' = 0
               /\ hw' = [hw EXCEPT !.pwmOn = TRUE]
               /\ Logicstate' = preTrigger
          ELSE /\ logicsend' = 1
               /\ logicpos' = Advance(logicpos)
               /\ UNCHANGED <<Logic_buff, hw, Logicstate>>
     ELSE UNCHANGED <<Logic_buff, logicpos, logicsend, hw, Logicstate>>
  /\ UNCHANGED <<ADCstate, adcpos, shadowCount, adcsend, triggerType, firstTrigger,
                 pauseTransmit, fullcomplete, primask>>
  /\ UNCHANGED <<pastValue, logicWritePointer, trigPin, trigEdge, period16,
                 prescaler16, period32, tim, gpio, cdcVars, obsVars, prevDesign>>

\* The test that opens the send block (main.c 421).
MainCheck ==
  /\ Idle
  /\ pc = "check"
  /\ pc' = IF SendCondition(adcsend, logicsend, pauseTransmit) THEN "send" ELSE "adc"
  /\ q' = [q EXCEPT !.rdy = <<adcsend, logicsend>>, !.paused = pauseTransmit]
  /\ UNCHANGED <<ADCstate, Logicstate, adcpos, shadowCount, logicpos, adcsend,
                 logicsend, triggerType, firstTrigger, pauseTransmit, fullcomplete, primask>>
  /\ UNCHANGED <<logicVars, periphVars, cdcVars, handled, acks, diags, txlen, lastAcq, portRead, prevDesign, awdStage, budget>>

\* The sendData call of the branch taken (main.c 422-434).  busy is the
\* result of CDC_Transmit_FS, which sendData does not look at.
MainSend(busy) ==
  /\ Idle
  /\ pc = "send"
  /\ pc' = "advance"
  /\ q' = [q EXCEPT !.sent = @ + 1, !.busy = busy,
                    !.frame = DataFrame(AdcArg(adcsend, adcpos),
                                        LogicArg(logicsend, logicpos)),
                    !.pos = <<adcpos, logicpos>>,
                    !.mode = ADCstate, !.sc = shadowCount]
  /\ UNCHANGED <<ADCstate, Logicstate, adcpos, shadowCount, logicpos, adcsend,
                 logicsend, triggerType, firstTrigger, pauseTransmit, fullcomplete, primask>>
  /\ UNCHANGED <<logicVars, periphVars, cdcVars, handled, acks, diags, txlen, lastAcq, portRead, prevDesign, awdStage, budget>>

\* Variant: a cursor is held when the transport reported busy.
CursorHeldOnBusy(pos, busy) == IF busy THEN pos ELSE Advance(pos)

\* The cursor update that follows sendData; sendData returns nothing, so the
\* update is the same whatever the transport reported.
CursorAfterSend(pos, busy) == Advance(pos)

\* The cursor updates after sendData and the clearing of both flags
\* (main.c 424-439).  The cursors are plain globals that interrupt handlers
\* also write: the value added to is the one in memory now or the one read
\* for the sendData call.
MainAdvance ==
  /\ Idle
  /\ pc = "advance"
  /\ pc' = "adc"
  /\ IF adcsend = 1
     THEN adcpos' \in { CursorAfterSend(adcpos, q.busy),
                        CursorAfterSend(q.pos[1], q.busy) }
     ELSE adcpos' = adcpos
  /\ IF logicsend = 1
     THEN logicpos' \in { CursorAfterSend(logicpos, q.busy),
                          CursorAfterSend(q.pos[2], q.busy) }
     ELSE logicpos' = logicpos
  /\ adcsend' = 0
  /\ logicsend' = 0
  /\ UNCHANGED <<ADCstate, Logicstate, shadowCount, triggerType, firstTrigger,
                 pauseTransmit, fullcomplete, primask>>
  /\ UNCHANGED <<logicVars, periphVars, cdcVars, obsVars, prevDesign>>

\* ---------------------------------------------------------------- interrupts
Irq ==
  /\ Idle
  /\ primask = 0
  /\ budget.irq < MaxIrq
  /\ budget' = [budget EXCEPT !.irq = @ + 1]
  /\ q' = Interrupted

\* An interrupt of a timer that its own callback stops: it is taken once per
\* start of the timer, so a run that is not cut off does not count it against
\* MaxIrq.
OneShotIrq ==
  IF budget.live
  THEN /\ Idle
       /\ primask = 0
       /\ budget' = budget
       /\ q' = Interrupted
  ELSE Irq

\* Shadow timer tick.
TIM17_IRQHandler ==
  /\ Irq
  /\ shadowCount' = IF shadowCount < ShadowLimit THEN U16(shadowCount + ShadowStep)
                    ELSE shadowCount
  /\ UNCHANGED <<pc, ADCstate, Logicstate, adcpos, logicpos, adcsend, logicsend,
                 triggerType, firstTrigger, pauseTransmit, fullcomplete, primask>>
  /\ UNCHANGED <<logicVars, periphVars, cdcVars, handled, acks, diags, txlen, lastAcq, portRead, prevDesign, awdStage>>

\* ADC DMA transfer complete.
HAL_ADC_ConvCpltCallback ==
  /\ Irq
  /\ hw.adcOn /\ hw.dmaIT
  /\ hw' = [hw EXCEPT !.adcOn = FALSE]
  /\ fullcomplete' = 1
  /\ UNCHANGED <<pc, ADCstate, Logicstate, adcpos, shadowCount, logicpos, adcsend,
                 logicsend, triggerType, firstTrigger, pauseTransmit, primask>>
  /\ UNCHANGED <<logicVars, tim, gpio, cdcVars, handled, acks, diags, txlen, lastAcq, portRead, prevDesign, awdStage>>

\* Watchdog events a handler has examined since the last arming, after an
\* invocation that reads the flags awd1 / awd2: 0 none, 1 the first stage
\* (AWD2), 2 the first stage and, in the same or a later invocation, the
\* second stage (AWD1).  The count starts again at 0 on every arming
\* (AcquisitionSet command, end of the post-trigger stream) and when the
\* main loop takes the confirmed trigger.
StageAfter(st, awd1, awd2) ==
  LET s1 == IF awd2 /\ st = 0 THEN 1 ELSE st
  IN IF awd1 /\ s1 >= 1 THEN 2 ELSE s1

\* Analog-watchdog interrupt of ADC1; awd1 / awd2 are the ISR flags it reads.
ADC1_IRQHandler(awd1, awd2) ==
  /\ Irq
  /\ hw.nvicADC1
  /\ (awd1 /\ hw.awd1ie[1]) \/ (awd2 /\ hw.awd2ie[1])
  /\ IF firstTrigger = 0
     THEN /\ firstTrigger' = 1
          /\ awdStage' = awdStage
          /\ UNCHANGED <<triggerType, hw>>
     ELSE LET tt1 == IF awd2 THEN 1 ELSE triggerType
          IN /\ awdStage' = StageAfter(awdStage, awd1, awd2)
             /\ IF awd1 /\ tt1 = 1
                THEN /\ triggerType' = 2
                     /\ firstTrigger' = 0
                     /\ hw' = [hw EXCEPT !.nvicADC1 = FALSE]
                ELSE /\ triggerType' = tt1
                     /\ UNCHANGED <<firstTrigger, hw>>
  /\ UNCHANGED <<pc, ADCstate, Logicstate, adcpos, shadowCount, logicpos, adcsend,
                 logicsend, pauseTransmit, fullcomplete, primask>>
  /\ UNCHANGED <<logicVars, tim, gpio, cdcVars, handled, acks, diags, txlen, lastAcq, portRead, prevDesign>>

\* Analog-watchdog interrupt of ADC2.  The confirmation test is
\* `(ADC2->ISR & ADC_ISR_AWD1) & triggerType==1`.
ADC2_IRQHandler(awd1, awd2) ==
  /\ Irq
  /\ (awd1 /\ hw.awd1ie[2]) \/ (awd2 /\ hw.awd2ie[2])
  /\ LET tt1 == IF awd2 THEN 1 ELSE triggerType
         isr1 == IF awd1 THEN ADC_ISR_AWD1 ELSE 0
         confirm == BitAnd(isr1, IF tt1 = 1 THEN 1 ELSE 0) # 0
     IN IF confirm
        THEN /\ triggerType' = 2
             /\ hw' = [hw EXCEPT !.awd1ie[2] = FALSE, !.awd2ie[2] = FALSE]
        ELSE /\ triggerType' = tt1
             /\ hw' = hw
  /\ awdStage' = StageAfter(awdStage, awd1, awd2)
  /\ UNCHANGED <<pc, ADCstate, Logicstate, adcpos, shadowCount, logicpos, adcsend,
                 logicsend, firstTrigger, pauseTransmit, fullcomplete, primask>>
  /\ UNCHANGED <<logicVars, tim, gpio, cdcVars, handled, acks, diags, txlen, lastAcq, portRead, prevDesign>>

\* Variant: the rising-edge test looks at the current sample only.
RisingLevel(past, cur, pin) == BitAnd(cur, pin) # 0

\* The nested tests of the capture callback for trigEdge = 0 and trigEdge = 1.
FallingHit(past, cur, pin) == BitAnd(past, pin) # 0 /\ BitAnd(cur, pin) = 0
RisingHit(past, cur, pin) == BitAnd(past, pin) = 0 /\ BitAnd(cur, pin) # 0

\* Variant: the write index is reset only once it has passed LOGIC_BUFF.
NextWritePointerLate(p) == IF U16(p + 1) > LOGIC_BUFF THEN 0 ELSE U16(p + 1)

\* logicWritePointer++; if(logicWritePointer>=LOGIC_BUFF) logicWritePointer=0;
NextWritePointer(p) == IF U16(p + 1) >= LOGIC_BUFF THEN 0 ELSE U16(p + 1)

\* Logic capture clock (TIM5 channel 1); v is the port value read.
HAL_TIM_PWM_PulseFinishedCallback(v) ==
  /\ Irq
  /\ hw.pwmOn
  /\ LET armed == Logicstate = preTrigger
         fall == armed /\ trigEdge = 0
         rise == armed /\ trigEdge = 1
         past1 == IF fall THEN BitAnd(pastValue, trigPin) ELSE pastValue
         riseArmed == rise /\ BitAnd(past1, trigPin) = 0
         cur1 == IF riseArmed THEN BitAnd(v, trigPin) ELSE v
         hit == \/ fall /\ FallingHit(pastValue, v, trigPin)
                \/ rise /\ RisingHit(pastValue, v, trigPin)
     IN /\ Logicstate' = IF hit THEN triggerState ELSE Logicstate
        /\ hw' = IF hit THEN [hw EXCEPT !.tim16On = TRUE] ELSE hw
        /\ Logic_buff' = Store(Logic_buff, logicWritePointer, cur1)
        /\ pastValue' = cur1
  /\ portRead' = v
  /\ prevDesign' = prevDesign
  /\ logicWritePointer' = NextWritePointer(logicWritePointer)
  /\ UNCHANGED <<pc, ADCstate, adcpos, shadowCount, logicpos, adcsend, logicsend,
                 triggerType, firstTrigger, pauseTransmit, fullcomplete, primask>>
  /\ UNCHANGED <<trigPin, trigEdge, period16, prescaler16, period32, tim, gpio,
                 cdcVars, handled, acks, diags, txlen, lastAcq, awdStage>>

\* Variant: the countdown callback leaves the capture clock running.
CountdownKeepsCapture(h) == [h EXCEPT !.tim16On = FALSE]

\* HAL_TIM_PWM_Stop_IT(&htim5, TIM_CHANNEL_1); HAL_TIM_Base_Stop_IT(&htim16).
CountdownStops(h) == [h EXCEPT !.pwmOn = FALSE, !.tim16On = FALSE]

\* Post-trigger countdown (TIM16) elapsed.
HAL_TIM_PeriodElapsedCallback ==
  /\ OneShotIrq
  /\ hw.tim16On
  /\ Logicstate' = postTrigger
  /\ logicpos' = 0
  /\ hw' = CountdownStops(hw)
  /\ UNCHANGED <<pc, ADCstate, adcpos, shadowCount, adcsend, logicsend,
                 triggerType, firstTrigger, pauseTransmit, fullcomplete, primask>>
  /\ UNCHANGED <<logicVars, tim, gpio, cdcVars, handled, acks, diags, txlen, lastAcq, portRead, prevDesign, awdStage>>

\* --------------------------------------------------------------- start states
\* The buffers hold 30000 samples and a frame carries 8, so a run from
\* power-up needs thousands of iterations to bring a cursor to capacity.  A
\* run of the model starts at power-up or at one of the later states of a
\* run from power-up, each a few iterations before the point of interest:
\*  FreeRun     free run, one shadow tick, 11 frames sent;
\*  FreeRunEnd  free run, shadow counter at its limit, 3749 frames sent;
\*  OscPost     AcquisitionSet (channel 0, mode 3, rising edge) handled,
\*              trigger confirmed by ADC1, post-trigger count reached, all
\*              but the last window streamed;
\*  LogicPost   LogicSet (control 1, pin mask 1, rising edge) handled, edge
\*              captured, countdown elapsed, 1874 logic windows streamed.
FreeRun == [Boot EXCEPT !.adcpos = 11 * datalength, !.shadowCount = ShadowStep]

FreeRunEnd ==
  [Boot EXCEPT !.adcpos = ADC_BUFF - datalength, !.shadowCount = ShadowLimit]

OscPost ==
  [Boot EXCEPT
     !.ADCstate = postTrigger, !.triggerType = 2,
     !.adcpos = ADC_BUFF - datalength, !.shadowCount = triggerDurationInit,
     !.lastAcq = AdcFrame(0, 3, 1),
     !.gpio = [@ EXCEPT !.fe[0] = [offset |-> 0, attenuation |-> 1, amp10 |-> 0,
                                   amp5 |-> 1, amp2_5 |-> 0, amp1 |-> 1]],
     !.tim = changeADCmode(@, 3),
     !.hw = [@ EXCEPT !.adcOn = FALSE, !.dmaIT = FALSE, !.nvicADC1 = FALSE,
                      !.sampling = ModeSampling(@, 3),
                      !.thr[1] = Thresholds(2000, 1),
                      !.awd1ie[1] = TRUE, !.awd2ie[1] = TRUE]]

LogicPost ==
  [Boot EXCEPT
     !.Logicstate = postTrigger, !.logicpos = LOGIC_BUFF - 2 * datalength,
     !.trigPin = 1, !.trigEdge = 1, !.period16 = 1000, !.prescaler16 = 3,
     !.pastValue = 1, !.logicWritePointer = 1, !.Logic_buff = Store(Zeroed, 0, 1),
     !.portRead = 1,
     !.tim = [@ EXCEPT !.t16per = 1000, !.t16psc = 3, !.t5per = 36000]]

\*  LogicCount  as LogicPost up to the captured edge: countdown running.
LogicCount ==
  [LogicPost EXCEPT !.Logicstate = triggerState, !.logicpos = 0,
                    !.hw = [@ EXCEPT !.pwmOn = TRUE, !.tim16On = TRUE]]

\*  LogicWrap   the two LogicSet commands of LogicFrames handled at power-up
\*              (the second arms pin 1, rising edge), then LOGIC_BUFF - 1
\*              captures of a port that stayed low: the write index is at
\*              the last element, no trigger yet.
LogicWrap ==
  [LogicPost EXCEPT
     !.Logicstate = preTrigger, !.logicpos = 0, !.pastValue = 0,
     !.logicWritePointer = LOGIC_BUFF - 1, !.Logic_buff = Zeroed,
     !.portRead = 0, !.hw = [@ EXCEPT !.pwmOn = TRUE]]

\*  StartupFailed  HAL_TIM_Base_Start_IT(&htim4) did not return HAL_OK at
\*              start-up (main.c 286-290): Error_Handler was entered before
\*              the main loop.
StartupFailed == [Boot EXCEPT !.pc = "halt", !.primask = disable_irq(0)]

StartStates ==
  { Boot, FreeRun, FreeRunEnd, OscPost, LogicPost, LogicCount, StartupFailed }

InitAt(s) ==
  /\ pc = s.pc
  /\ primask = s.primask
  /\ ADCstate = s.ADCstate
  /\ Logicstate = s.Logicstate
  /\ adcpos = s.adcpos
  /\ shadowCount = s.shadowCount
  /\ logicpos = s.logicpos
  /\ adcsend = 0
  /\ logicsend = 0
  /\ triggerType = s.triggerType
  /\ firstTrigger = s.firstTrigger
  /\ pauseTransmit = 0
  /\ fullcomplete = 0
  /\ pastValue = s.pastValue
  /\ logicWritePointer = s.logicWritePointer
  /\ Logic_buff = s.Logic_buff
  /\ trigPin = s.trigPin
  /\ trigEdge = s.trigEdge
  /\ period16 = s.period16
  /\ prescaler16 = s.prescaler16
  /\ period32 = s.period32
  /\ hw = s.hw
  /\ tim = s.tim
  /\ gpio = s.gpio
  /\ cdc = "idle"
  /\ rx = NoFrame
  /\ BULK_BUFF_RECV = s.BULK_BUFF_RECV
  /\ BULK_BUFF = s.BULK_BUFF
  /\ numSamples = s.numSamples
  /\ phaseARR = s.phaseARR
  /\ ARR_hold = s.ARR_hold
  /\ awg_lut = s.awg_lut
  /\ handled = "none"
  /\ acks = 0
  /\ diags = 0
  /\ txlen = <<>>
  /\ lastAcq = s.lastAcq
  /\ awdStage = s.awdStage
  /\ portRead = s.portRead
  /\ prevDesign = s.prevDesign
  /\ q = [NoQuantum EXCEPT !.mode0 = s.ADCstate, !.adc0 = s.adcpos,
                           !.logic0 = s.logicpos]
  /\ budget = [frames |-> 0, quanta |-> 0, irq |-> 0, live |-> s.live]

Init == \E s \in StartStates : InitAt(s)

\*  AwgCh0 / AwgCh1  WaveformSet for channel 0 / 1 (the frame of AwgFrames)
\*              handled and its table received in full (two frames of tag 255
\*              for channel 0, two of tag 4 for channel 1).
AwgCh0 ==
  [Boot EXCEPT
     !.numSamples = <<16, 0>>, !.phaseARR = <<50, 0>>, !.ARR_hold = <<100, 0>>,
     !.BULK_BUFF = 2 * PacketLen,
     !.awg_lut = [b \in (DOMAIN Zeroed) \cup {0, 1} |->
                    IF b \in {0, 1} THEN [tag |-> 255] ELSE Zeroed[b]],
     !.gpio = [@ EXCEPT !.gain[1] = PinLevel(1)],
     !.hw = [@ EXCEPT !.dacLen = <<16, 0>>],
     !.tim = [@ EXCEPT !.ccr1 = 2048, !.t6arr = 100, !.t6psc = 2,
                       !.t6cnt = U16(50 - 0), !.t7cnt = U16(0 - 100),
                       !.t6en = TRUE, !.t7en = TRUE]]

AwgCh1 ==
  [Boot EXCEPT
     !.numSamples = <<0, 64>>, !.phaseARR = <<0, 10>>, !.ARR_hold = <<0, 300>>,
     !.BULK_BUFF = AWG_SAMPLES * 2 + 2 * PacketLen,
     !.awg_lut = [b \in (DOMAIN Zeroed) \cup {128, 129} |->
                    IF b \in {128, 129} THEN [tag |-> 4] ELSE Zeroed[b]],
     !.gpio = [@ EXCEPT !.gain[2] = PinLevel(0)],
     !.hw = [@ EXCEPT !.dacLen = <<0, 64>>],
     !.tim = [@ EXCEPT !.ccr2 = 1000, !.t7arr = 300, !.t7psc = 5,
                       !.t6cnt = U16(0 - 300), !.t7cnt = U16(10 - 0),
                       !.t6en = TRUE, !.t7en = TRUE]]

\*  AwgPending(n, k)  WaveformSet for channel 0 with sample count n handled
\*              and the first k frames of its table (tag 255) received.
AwgPending(n, k) ==
  [AwgCh0 EXCEPT
     !.numSamples = <<n, 0>>,
     !.BULK_BUFF = k * PacketLen,
     !.BULK_BUFF_RECV = BulkBytes(n) - k * PacketLen,
     !.awg_lut = [b \in 0..(k - 1) |-> [tag |-> 255]],
     !.hw = [@ EXCEPT !.dacLen = <<n, 0>>]]

\*  AwgOdd      sample count 33 (66 table bytes), one table frame received;
\*  AwgOver     sample count 4097 (8194 table bytes), 128 table frames
\*              received: awg_lut[0] is full.
AwgOdd == AwgPending(33, 1)

AwgOver == AwgPending(4097, (AWG_SAMPLES * 2) \div PacketLen)

\* States of the oscilloscope trigger engine, each a few interrupts into a
\* run from power-up:
\*  OscArmed0   AcquisitionSet (channel 0, mode 3, rising edge) handled; ADC1
\*              interrupted twice: the first interrupt was skipped
\*              (firstTrigger), the second found the first-stage flag;
\*  OscArmed1   AcquisitionSet (channel 1, mode 12, falling edge) handled; ADC2
\*              interrupted once and found the first-stage flag;
\*  OscBoth     AcquisitionSet for channel 1 and then for channel 0 handled
\*              (the two frames above), ADC1 interrupted three times, the
\*              third time with the second-stage flag: trigger confirmed,
\*              not yet seen by the main loop;
\*  OscTrig     as OscPost before the post-trigger count: the main loop has
\*              seen the confirmed trigger and sampling continues.
OscArmed0 ==
  [Boot EXCEPT
     !.ADCstate = preTrigger, !.triggerType = 1, !.firstTrigger = 1,
     !.lastAcq = AdcFrame(0, 3, 1), !.awdStage = 1,
     !.gpio = [@ EXCEPT !.fe[0] = [offset |-> 0, attenuation |-> 1, amp10 |-> 0,
                                   amp5 |-> 1, amp2_5 |-> 0, amp1 |-> 1]],
     !.tim = changeADCmode(@, 3),
     !.hw = [@ EXCEPT !.dmaIT = FALSE, !.sampling = ModeSampling(@, 3),
                      !.thr[1] = Thresholds(2000, 1),
                      !.awd1ie[1] = TRUE, !.awd2ie[1] = TRUE]]

OscArmed1 ==
  [Boot EXCEPT
     !.ADCstate = preTrigger, !.triggerType = 1,
     !.lastAcq = AdcFrame(1, 12, 2), !.awdStage = 1,
     !.gpio = [@ EXCEPT !.fe[1] = [offset |-> 1, attenuation |-> 1, amp10 |-> 0,
                                   amp5 |-> 1, amp2_5 |-> 0, amp1 |-> 0]],
     !.tim = changeADCmode(@, 12),
     !.hw = [@ EXCEPT !.dmaIT = FALSE, !.sampling = ModeSampling(@, 12),
                      !.thr[2] = Thresholds(2000, 2),
                      !.awd1ie[2] = TRUE, !.awd2ie[2] = TRUE]]

OscBoth ==
  [OscArmed0 EXCEPT
     !.triggerType = 2, !.firstTrigger = 0, !.awdStage = 2,
     !.gpio = [@ EXCEPT !.fe[1] = [offset |-> 1, attenuation |-> 1, amp10 |-> 0,
                                   amp5 |-> 1, amp2_5 |-> 0, amp1 |-> 0]],
     !.hw = [@ EXCEPT !.nvicADC1 = FALSE,
                      !.thr[2] = Thresholds(2000, 2),
                      !.awd1ie[2] = TRUE, !.awd2ie[2] = TRUE]]

OscTrig ==
  [OscPost EXCEPT !.ADCstate = triggerState, !.adcpos = 0, !.shadowCount = 0,
                  !.hw = [@ EXCEPT !.adcOn = TRUE]]

\* -------------------------------------------------------------------- Next
Next ==
  \/ \E f \in Frames : CDC_Receive(f)
  \/ HandleHandshake
  \/ HandleWaveformSet
  \/ HandleAcquisitionSet
  \/ \E hal \in HalOutcomes : HandleLogicSet(hal)
  \/ HandleUnknown
  \/ HandleTable
  \/ CDC_Return
  \/ MainADC
  \/ MainLogic
  \/ MainCheck
  \/ MainSend(FALSE)
  \/ MainAdvance
  \/ TIM17_IRQHandler
  \/ HAL_ADC_ConvCpltCallback
  \/ \E a1, a2 \in BOOLEAN : ADC1_IRQHandler(a1, a2)
  \/ \E a1, a2 \in BOOLEAN : ADC2_IRQHandler(a1, a2)
  \/ \E v \in PortValues : HAL_TIM_PWM_PulseFinishedCallback(v)
  \/ HAL_TIM_PeriodElapsedCallback

\* The whole firmware.  The transport accepts every data frame: sendData
\* ignores the result of CDC_Transmit_FS, so the result changes no variable of
\* the program; SpecBusy lets the transport report busy.
Spec == Init /\ [][Next]_vars

\* The logic analyzer: LogicSet commands, the capture clock, the countdown and
\* the main loop, with EdgeFrames and EdgePortValues.
InitLogic == \E s \in { Boot, LogicPost, LogicCount, LogicWrap } : InitAt(s)

NextLogic ==
  \/ \E f \in EdgeFrames : CDC_Receive(f)
  \/ \E hal \in HalOutcomes : HandleLogicSet(hal)
  \/ CDC_Return
  \/ MainADC
  \/ MainLogic
  \/ MainCheck
  \/ MainSend(FALSE)
  \/ MainAdvance
  \/ \E v \in EdgePortValues : HAL_TIM_PWM_PulseFinishedCallback(v)
  \/ HAL_TIM_PeriodElapsedCallback

SpecLogic == InitLogic /\ [][NextLogic]_vars

\* The command decoder alone, with CdcFrames, from power-up, from the two
\* states in which one generator channel has been set up, and from two states
\* in the middle of a table transfer.
InitCdc == \E s \in { Boot, AwgCh0, AwgCh1, AwgOdd, AwgOver } : InitAt(s)

NextCdc ==
  \/ \E f \in CdcFrames : CDC_Receive(f)
  \/ HandleHandshake
  \/ HandleWaveformSet
  \/ HandleAcquisitionSet
  \/ \E hal \in HalOutcomes : HandleLogicSet(hal)
  \/ HandleUnknown
  \/ HandleTable
  \/ CDC_Return

SpecCdc == InitCdc /\ [][NextCdc]_vars

\* The streaming scheduler with a transport that may report busy for any data
\* frame, the hardware interrupts and the AcquisitionSet commands.
NextBusy ==
  \/ \E f \in AdcFrames : CDC_Receive(f)
  \/ HandleAcquisitionSet
  \/ CDC_Return
  \/ MainADC
  \/ MainLogic
  \/ MainCheck
  \/ \E busy \in BOOLEAN : MainSend(busy)
  \/ MainAdvance
  \/ TIM17_IRQHandler
  \/ HAL_ADC_ConvCpltCallback
  \/ \E a1, a2 \in BOOLEAN : ADC1_IRQHandler(a1, a2)
  \/ \E a1, a2 \in BOOLEAN : ADC2_IRQHandler(a1, a2)
  \/ \E v \in PortValues : HAL_TIM_PWM_PulseFinishedCallback(v)
  \/ HAL_TIM_PeriodElapsedCallback

SpecBusy == Init /\ [][NextBusy]_vars

\* The oscilloscope trigger engine: AcquisitionSet commands, the watchdog
\* interrupts of both ADCs, the shadow timer and the main loop.
InitTrig ==
  \E s \in { Boot, OscArmed0, OscArmed1, OscBoth, OscTrig, OscPost } : InitAt(s)

NextTrig ==
  \/ \E f \in AdcFrames : CDC_Receive(f)
  \/ HandleAcquisitionSet
  \/ CDC_Return
  \/ MainADC
  \/ MainLogic
  \/ MainCheck
  \/ MainSend(FALSE)
  \/ MainAdvance
  \/ TIM17_IRQHandler
  \/ HAL_ADC_ConvCpltCallback
  \/ \E a1, a2 \in BOOLEAN : ADC1_IRQHandler(a1, a2)
  \/ \E a1, a2 \in BOOLEAN : ADC2_IRQHandler(a1, a2)

SpecTrig == InitTrig /\ [][NextTrig]_vars

\*  LogicCountArmed  as LogicCount, and then AcquisitionSet (channel 0, mode 3,
\*              rising edge) handled: the oscilloscope waits for a trigger
\*              while the logic countdown runs.
LogicCountArmed ==
  [LogicCount EXCEPT
     !.ADCstate = preTrigger, !.lastAcq = AdcFrame(0, 3, 1),
     !.gpio = [@ EXCEPT !.fe[0] = [offset |-> 0, attenuation |-> 1, amp10 |-> 0,
                                   amp5 |-> 1, amp2_5 |-> 0, amp1 |-> 1]],
     !.tim = changeADCmode(@, 3),
     !.hw = [@ EXCEPT !.dmaIT = FALSE, !.sampling = ModeSampling(@, 3),
                      !.thr[1] = Thresholds(2000, 1),
                      !.awd1ie[1] = TRUE, !.awd2ie[1] = TRUE]]

\* Runs that are not cut off: no command arrives, the main loop iterates
\* for ever, the countdown timer interrupts whenever it has been started, and
\* MaxIrq still bounds the shadow-timer ticks and the capture-clock
\* interrupts.  A run starts where a trigger has just been taken: the
\* oscilloscope in triggerState with the post-trigger count still to come, or
\* the logic analyzer on its captured edge with the countdown running and the
\* oscilloscope armed.
LiveStates == { [s EXCEPT !.live = TRUE] : s \in { OscTrig, LogicCountArmed } }

InitLive == \E s \in LiveStates : InitAt(s)

\* One step of the while(1) loop of main().
MainLoop == MainADC \/ MainLogic \/ MainCheck \/ MainSend(FALSE) \/ MainAdvance

NextLive ==
  \/ MainADC
  \/ MainLogic
  \/ MainCheck
  \/ MainSend(FALSE)
  \/ MainAdvance
  \/ TIM17_IRQHandler
  \/ \E v \in PortValues : HAL_TIM_PWM_PulseFinishedCallback(v)
  \/ HAL_TIM_PeriodElapsedCallback

\* The main loop never stops, and a pending timer interrupt is served.
SpecLive ==
  /\ InitLive
  /\ [][NextLive]_vars
  /\ WF_vars(MainLoop)
  /\ WF_vars(TIM17_IRQHandler)
  /\ WF_vars(HAL_TIM_PeriodElapsedCallback)

\* ============================================================== properties
\* The handler named for a tag by the command switch.
HandlerOfTag(tag) ==
  CASE tag = 0 -> "Handshake"
    [] tag = 1 -> "WaveformSet"
    [] tag = 2 -> "AcquisitionSet"
    [] tag = 3 -> "LogicSet"
    [] OTHER -> "Unknown"

\* The handler has run and is about to return a frame taken as a command.
CommandHandled == cdc = "return" /\ handled # "Table"

\* A main-loop iteration that sent a frame has ended, with no interrupt
\* (command or hardware) since it began.
QuantumDone == pc = "adc" /\ q.sent = 1 /\ ~q.irq

\* C1 as stated: every command frame with tag 0..3 produces exactly one
\* acknowledgment and nothing else; every other tag produces exactly one
\* diagnostic and no acknowledgment.
C1_AsClaimed ==
  CommandHandled =>
    IF rx.tag \in 0..3 THEN acks = 1 /\ diags = 0 ELSE acks = 0 /\ diags = 1

\* C1 amended: tags 1, 2, 3 produce exactly one acknowledgment and nothing
\* else; tag 0 produces one acknowledgment when the magic is 'INIT' and no
\* frame at all otherwise; any other tag produces exactly one diagnostic and
\* no acknowledgment.
C1_OneResponsePerCommand ==
  CommandHandled =>
    CASE rx.tag \in 1..3 -> acks = 1 /\ diags = 0
      [] rx.tag = 0 ->
           /\ diags = 0
           /\ acks = IF rx.handshake_string = HS_STRING THEN 1 ELSE 0
      [] OTHER -> acks = 0 /\ diags = 1

\* A Handshake frame with a wrong magic was handled: no frame went out.
C1_Witness ==
  /\ CommandHandled
  /\ rx.tag = 0
  /\ rx.handshake_string # HS_STRING
  /\ acks = 0
  /\ diags = 0

\* C2: pauseTransmit is 1 from the entry of the handler until its return, for
\* command frames and table-data frames alike, and 0 whenever no frame is
\* being handled (so it is 0 when the next frame is accepted).
C2_PausedExactlyWhileHandling ==
  /\ cdc \in {"dispatch", "return"} => pauseTransmit = 1
  /\ cdc = "idle" => pauseTransmit = 0

\* A table-data frame is being handled with the flag set, and a second frame
\* has been accepted (the first one returned with the flag cleared).
C2_Witness ==
  /\ cdc = "return"
  /\ handled = "Table"
  /\ pauseTransmit = 1
  /\ budget.frames = 2

C4_HandshakeAckIffInit ==
  (cdc = "return" /\ handled = "Handshake") =>
    /\ acks \in {0, 1}
    /\ acks = 1 <=> rx.handshake_string = HS_STRING

\* A Handshake frame with the magic 'INIT' was acknowledged.
C4_Witness ==
  /\ cdc = "return"
  /\ handled = "Handshake"
  /\ rx.handshake_string = HS_STRING
  /\ acks = 1

\* Device state in the sense of C5.
DeviceState ==
  <<ADCstate, Logicstate, adcpos, logicpos, shadowCount, adcsend, logicsend,
    triggerType, firstTrigger, trigPin, trigEdge, period16, prescaler16,
    period32, pastValue, logicWritePointer, Logic_buff, hw, tim, gpio,
    awg_lut, numSamples, phaseARR, ARR_hold, BULK_BUFF, BULK_BUFF_RECV>>

\* A step of the handling of a command frame with an unknown tag: its entry,
\* its dispatch or its return.
UnknownTagStep ==
  \/ cdc = "idle" /\ cdc' = "dispatch" /\ BULK_BUFF_RECV = 0 /\ rx'.tag \notin 0..3
  \/ cdc = "dispatch" /\ BULK_BUFF_RECV = 0 /\ rx.tag \notin 0..3
  \/ cdc = "return" /\ handled = "Unknown"

\* C5: handling a command frame with a tag other than 0..3 changes no device
\* state, from the entry of the handler to its return.
C5_UnknownTagChangesNothing == [][UnknownTagStep => UNCHANGED DeviceState]_vars

\* An unknown-tag frame was handled in the middle of an acquisition: the
\* diagnostic went out and the handler is about to return.
C5_Witness ==
  /\ cdc = "return"
  /\ handled = "Unknown"
  /\ diags = 1
  /\ adcpos # 0

\* C6 as stated: in an iteration with both subsystems ready and no command,
\* exactly one frame is sent, its windows start at the two cursors, and over
\* the iteration adcpos and logicpos each advance by exactly datalength.
C6_AsClaimed ==
  (pc = "adc" /\ ~q.irq /\ q.rdy = <<1, 1>>) =>
    /\ q.sent = 1
    /\ q.frame.oscwin = q.pos[1]
    /\ q.frame.logicwin = q.pos[2]
    /\ adcpos = q.adc0 + datalength
    /\ logicpos = q.logic0 + datalength

\* C7 as stated: in an iteration with exactly one subsystem ready, the frame
\* carries the sentinel in the other subsystem's cursor field and that
\* subsystem's cursor is the same at the end of the iteration as at its start.
C7_AsClaimed ==
  QuantumDone =>
    /\ q.rdy = <<1, 0>> => q.frame.logicpos = NoData /\ logicpos = q.logic0
    /\ q.rdy = <<0, 1>> => q.frame.adcpos = NoData /\ adcpos = q.adc0

\* C7 amended: the frame carries the sentinel in the not-ready subsystem's
\* cursor field, and that subsystem's cursor is not advanced: at the end of
\* the iteration it has its value of the start, or it is zero because the
\* subsystem's own state switch reset it in this iteration (buffer streamed
\* to capacity, or oscilloscope trigger confirmed).
C7_NotReadyCursorNotAdvanced ==
  QuantumDone =>
    /\ q.rdy = <<1, 0>> =>
         /\ q.frame.logicpos = NoData
         /\ \/ logicpos = q.logic0
            \/ logicpos = 0 /\ q.logic0 >= LOGIC_BUFF
    /\ q.rdy = <<0, 1>> =>
         /\ q.frame.adcpos = NoData
         /\ \/ adcpos = q.adc0
            \/ adcpos = 0 /\ (q.adc0 >= ADC_BUFF \/ q.mode0 = preTrigger)

\* Only the logic analyzer was ready: the frame went out with the sentinel in
\* the oscilloscope field and the oscilloscope cursor stayed.
C7_Witness ==
  /\ QuantumDone
  /\ q.rdy = <<0, 1>>
  /\ q.frame.adcpos = NoData
  /\ adcpos = q.adc0

\* C8: in free run adcpos never exceeds the buffer capacity; the iteration
\* that finds adcpos at capacity sets it to 0 and clears adcsend in its
\* oscilloscope step; every oscilloscope window sent lies inside the buffer.
C8_FreeRunNoOverrun ==
  /\ ADCstate = noTrigger => adcpos <= ADC_BUFF
  /\ (pc = "logic" /\ ~q.irq /\ q.mode0 = noTrigger /\ q.adc0 >= ADC_BUFF) =>
       adcpos = 0 /\ adcsend = 0
  /\ (q.sent = 1 /\ q.mode = noTrigger /\ q.frame.adcpos # NoData) =>
       q.frame.oscwin + datalength <= ADC_BUFF

\* Free run found adcpos at capacity and wrapped it.
C8_Witness ==
  /\ pc = "logic"
  /\ ~q.irq
  /\ q.mode0 = noTrigger
  /\ q.adc0 = ADC_BUFF
  /\ adcpos = 0
  /\ adcsend = 0

\* C9 as stated (for free run): every oscilloscope window sent ends at or
\* below the samples-available counter at the moment of the send.
C9_AsClaimed ==
  (q.sent = 1 /\ q.mode = noTrigger /\ q.frame.adcpos # NoData) =>
    q.frame.oscwin + datalength <= q.sc

\* C10 as stated: a step that takes adcpos from non-zero to 0 is a
\* postTrigger -> preTrigger transition.
C10_AsClaimed ==
  [][(adcpos # 0 /\ adcpos' = 0) =>
       (ADCstate = postTrigger /\ ADCstate' = preTrigger)]_vars

\* C10 amended: a step that takes adcpos from non-zero to 0 is one of: the
\* postTrigger -> preTrigger transition at capacity; the free-run wrap at
\* capacity (noTrigger stays noTrigger); the preTrigger -> triggerState
\* transition on a confirmed trigger; the handling of an AcquisitionSet
\* command (ADCstart).
C10_CursorResetSteps ==
  [][(adcpos # 0 /\ adcpos' = 0) =>
       \/ /\ pc = "adc" /\ cdc = "idle" /\ adcpos >= ADC_BUFF
          /\ ADCstate = postTrigger /\ ADCstate' = preTrigger
       \/ /\ pc = "adc" /\ cdc = "idle" /\ adcpos >= ADC_BUFF
          /\ ADCstate = noTrigger /\ ADCstate' = noTrigger
       \/ /\ pc = "adc" /\ cdc = "idle" /\ triggerType = 2
          /\ ADCstate = preTrigger /\ ADCstate' = triggerState
       \/ /\ cdc = "dispatch" /\ rx.tag = 2 /\ BULK_BUFF_RECV = 0]_vars

\* The post-trigger stream reached capacity and the cursor was reset with the
\* phase going back to preTrigger.
C10_Witness ==
  /\ pc = "logic"
  /\ ~q.irq
  /\ q.mode0 = postTrigger
  /\ q.adc0 = ADC_BUFF
  /\ ADCstate = preTrigger
  /\ adcpos = 0

\* C12: in every main-loop iteration at most one data frame is sent; the
\* send block is entered exactly when the send test read adcsend = 1 or
\* logicsend = 1 together with pauseTransmit = 0, so an iteration whose test
\* read pauseTransmit = 1 sends nothing; and when an iteration that sent a
\* frame has ended, both readiness flags are 0.
C12_OneFramePerQuantum ==
  LET ready == (q.rdy[1] = 1 \/ q.rdy[2] = 1) /\ q.paused = 0
  IN /\ q.sent <= 1
     /\ pc \in {"send", "advance"} => ready
     /\ pc = "advance" => q.sent = 1
     /\ pc = "adc" => (q.sent = 1 <=> ready)
     /\ q.paused = 1 => q.sent = 0
     /\ (pc = "adc" /\ q.sent = 1) => (adcsend = 0 /\ logicsend = 0)

\* Both subsystems were ready and the iteration, now ended, sent one frame.
C12_Witness ==
  pc = "adc" /\ q.sent = 1 /\ q.rdy = <<1, 1>> /\ adcsend = 0 /\ logicsend = 0

\* C13 as stated: no acknowledgment or diagnostic frame is handed to the
\* transport while the main loop is between its send test and the sendData
\* call of the data frame.
C13_AsClaimed ==
  ~(pc = "send" /\ cdc = "return" /\ acks + diags > 0)
\* C14: in a capture callback entered with Logicstate = preTrigger, when
\* trigEdge = 1 and the previous sample masked by trigPin is zero and the
\* current sample masked is non-zero, or trigEdge = 0 and the previous masked
\* sample is non-zero and the current masked sample is zero, Logicstate is
\* triggerState and the countdown timer (TIM16) is running when the callback
\* returns; otherwise Logicstate is still preTrigger and the timer is as it
\* was.  The previous sample is pastValue, the value the previous invocation
\* kept; the current sample masked is the kept value of this one, masked.
CaptureStep == logicWritePointer' # logicWritePointer

C14_EdgeStartsCountdown ==
  [][(CaptureStep /\ Logicstate = preTrigger) =>
       LET prev == BitAnd(pastValue, trigPin)
           cur == BitAnd(pastValue', trigPin)
           rising == trigEdge = 1 /\ prev = 0 /\ cur # 0
           falling == trigEdge = 0 /\ prev # 0 /\ cur = 0
       IN IF rising \/ falling
          THEN Logicstate' = triggerState /\ hw'.tim16On
          ELSE Logicstate' = preTrigger /\ hw'.tim16On = hw.tim16On]_vars

\* A falling edge on pin 0 was captured after LogicSet (control 1, pin mask 1,
\* edge 0): previous sample 1, current sample 0, countdown started.
C14_Witness ==
  /\ Logicstate = triggerState /\ hw.tim16On /\ hw.pwmOn
  /\ trigEdge = 0 /\ trigPin = 1 /\ pastValue = 0
  /\ budget.irq = 1 /\ budget.frames = 1 /\ cdc = "idle"
\* C15: when a WaveformSet command has been handled, generator timer 0's
\* counter is phaseARR[0] - ARR_hold[1] and timer 1's counter is
\* phaseARR[1] - ARR_hold[0] in 16-bit arithmetic, phaseARR[c] and ARR_hold[c]
\* being the phase and period of the last WaveformSet for channel c (0 when
\* channel c has had none); after commands for both channels (period 100,
\* phase 50 for channel 0; period 300, phase 10 for channel 1) the counters
\* are 50 - 300 and 10 - 100 modulo 65536.
AwgFrameOf(c) == CHOOSE f \in AwgFrames : f.channel = c

C15_PhaseCounters ==
  (cdc = "return" /\ handled = "WaveformSet") =>
    LET p(c) == IF numSamples[c + 1] # 0 THEN AwgFrameOf(c).phaseARR ELSE 0
        a(c) == IF numSamples[c + 1] # 0 THEN AwgFrameOf(c).ARR ELSE 0
    IN /\ tim.t6cnt = (p(0) - a(1)) % 65536
       /\ tim.t7cnt = (p(1) - a(0)) % 65536
       /\ tim.t6en /\ tim.t7en

\* Both channels have been commanded; both counters wrapped.
C15_Witness ==
  /\ cdc = "return" /\ handled = "WaveformSet"
  /\ numSamples = <<16, 64>>
  /\ tim.t6cnt = 65536 + 50 - 300 /\ tim.t7cnt = 65536 + 10 - 100

\* C16: handling an AcquisitionSet command whose payload equals that of the
\* AcquisitionSet command handled last leaves the front-end GPIO outputs, the
\* period and prescaler of the sample timer and of the shadow timer, and the
\* ADC sampling-time code as they were after that last handling.
AcqConfig ==
  <<gpio.fe, tim.t8psc, tim.t8arr, tim.t17psc, tim.t17arr, hw.sampling>>

C16_AcquisitionSetIdempotent ==
  [][(cdc = "dispatch" /\ handled' = "AcquisitionSet" /\ lastAcq = rx) =>
       AcqConfig' = AcqConfig]_vars

\* The same mode-3 command has been received a second time, right after its
\* first handling.
C16_Witness ==
  /\ cdc = "dispatch" /\ rx.tag = 2 /\ lastAcq = rx /\ rx.adcmode = 3
  /\ budget.frames = 2 /\ hw.sampling = 4 /\ tim.t8arr = 20 - 1

\* C17: an AcquisitionSet command with mode code 12..255 is handled like any
\* other (acknowledged, front-end outputs written) and leaves the sample
\* timer, the shadow timer and the sampling-time code with the values mode
\* code 0 leaves: prescaler 24 / period 1, prescaler 499 / period 9, code 0.
C17_DefaultModeIsModeZero ==
  (cdc = "return" /\ handled = "AcquisitionSet" /\ rx.adcmode \notin 1..11) =>
    /\ acks = 1 /\ diags = 0
    /\ gpio.fe[rx.channel].offset = PinLevel(rx.offset)
    /\ <<tim.t8psc, tim.t8arr, tim.t17psc, tim.t17arr>> = <<24, 1, 499, 9>>
    /\ hw.sampling = 0

\* Mode code 255 handled as the second command of a run.
C17_Witness ==
  /\ cdc = "return" /\ handled = "AcquisitionSet" /\ rx.adcmode = 255
  /\ budget.frames = 2 /\ tim.t8arr = 1 /\ tim.t17arr = 9 /\ acks = 1

\* C18 as stated: every frame handed to the transport - acknowledgment,
\* unrecognized-packet diagnostic, data frame - is 64 bytes long.
C18_AsClaimed ==
  /\ \A i \in 1..Len(txlen) : txlen[i] = 64
  /\ q.frame # NoFrame => q.frame.bytes = 64

\* C19: when CDC_Transmit_FS reports busy for a data frame, the iteration
\* sends nothing else; with no interrupt in the iteration, at its end both
\* readiness flags are 0 and the cursor of each subsystem whose window the
\* frame carried is the cursor passed to sendData plus the window length;
\* and the frame the next iteration sends does not carry the window of the
\* dropped frame again.
C19_BusyFrameDropped ==
  /\ q.busy => q.sent = 1
  /\ (pc = "adc" /\ q.sent = 1 /\ q.busy /\ ~q.irq) =>
        /\ adcsend = 0 /\ logicsend = 0
        /\ q.rdy[1] = 1 => adcpos = q.pos[1] + datalength
        /\ q.rdy[2] = 1 => logicpos = q.pos[2] + datalength
  /\ (q.sent = 1 /\ ~q.irq /\ q.dropped # NoFrame) =>
        /\ q.dropped.adcpos # NoData => q.frame.adcpos # q.dropped.adcpos
        /\ q.dropped.logicpos # NoData => q.frame.logicpos # q.dropped.logicpos

\* The iteration after one whose frame was dropped sent the next
\* oscilloscope window.
C19_Witness ==
  /\ pc = "adc" /\ q.sent = 1 /\ ~q.irq /\ q.dropped # NoFrame
  /\ q.dropped.adcpos # NoData
  /\ q.frame.adcpos = q.dropped.adcpos + datalength

\* C20: once Error_Handler has been entered, interrupts are masked and no
\* step of the firmware follows: no variable changes any more.
Halted == pc = "halt" \/ cdc = "halt"

C20_HaltIsFinal ==
  [][Halted => (primask = 1 /\ vars' = vars)]_vars

\* Error_Handler entered from the LogicSet handler, after its acknowledgment.
C20_Witness ==
  cdc = "halt" /\ primask = 1 /\ handled = "LogicSet" /\ acks = 1

\* C21 as stated: ADCstate goes from preTrigger to triggerState only when,
\* since the oscilloscope was last armed (AcquisitionSet command, or end of the
\* post-trigger stream), the first-stage watchdog event and then the
\* second-stage watchdog event have both occurred.
C21_AsClaimed ==
  [][(ADCstate = preTrigger /\ ADCstate' = triggerState) => awdStage = 2]_vars

\* C22 as stated, for channel 1 (ADC2): with the oscilloscope armed by an
\* AcquisitionSet command for channel 1 and only ADC2's watchdog interrupts
\* enabled, the interrupt that finds the second-stage flag raised after the
\* first-stage flag was seen leaves triggerType = 2.
C22_AsClaimed ==
  [][(/\ lastAcq.tag = 2 /\ lastAcq.channel = 1 /\ lastAcq.triggermode \in {1, 2}
      /\ ADCstate = preTrigger /\ hw.adcOn
      /\ ~hw.awd1ie[1] /\ ~hw.awd2ie[1]
      /\ awdStage = 1 /\ awdStage' = 2) => triggerType' = 2]_vars

\* C23 as stated: while a confirmed trigger is pending or being served
\* (triggerType = 2, no command received since the confirmation, ADC
\* running), no interrupt handler changes triggerType.
C23_AsClaimed ==
  [][(triggerType = 2 /\ budget.frames = 0 /\ hw.adcOn
      /\ budget'.irq # budget.irq) => triggerType' = 2]_vars

\* C24 as stated: a data frame carries oscilloscope samples only if ADCstate
\* is noTrigger or postTrigger at the sendData call, and logic samples only if
\* Logicstate is postTrigger at the sendData call.
C24_AsClaimed ==
  [][(pc = "send" /\ pc' = "advance") =>
       /\ q'.frame.adcpos # NoData => ADCstate \in {noTrigger, postTrigger}
       /\ q'.frame.logicpos # NoData => Logicstate = postTrigger]_vars

\* C25 as stated: for every sendData call of the scheduler, the window read
\* from adc_buff / adc_buff1 and the window read from Logic_buff lie within
\* indices 0 .. capacity - 1.
C25_AsClaimed ==
  q.sent = 1 =>
    /\ q.frame.oscwin >= 0 /\ q.frame.oscwin + q.frame.len <= ADC_BUFF
    /\ q.frame.logicwin >= 0 /\ q.frame.logicwin + q.frame.len <= LOGIC_BUFF

\* The 16-bit cell i of a memory kept as the function of its non-zero cells.
Load(mem, i) == IF i \in DOMAIN mem THEN mem[i] ELSE 0

\* C27 as stated: the value a capture callback stores in Logic_buff, and the
\* value it keeps in pastValue for the next comparison, is the port value it
\* read on entry.
C27_AsClaimed ==
  [][CaptureStep =>
       /\ Load(Logic_buff', logicWritePointer) = portRead'
       /\ pastValue' = portRead']_vars

\* C26 as stated, per iteration: in an iteration of a logic postTrigger
\* streaming pass with no command and no interrupt, the logic window placed
\* in the frame starts at the cursor the pass had reached when the iteration
\* began (0 for the first one), and the cursor ends the iteration one window
\* further, so that the windows sent are 0, 8, 16, ... with none skipped.
C26_AsClaimed ==
  (pc = "adc" /\ q.sent = 1 /\ ~q.irq /\ Logicstate = postTrigger
     /\ q.frame.logicpos # NoData) =>
    /\ q.frame.logicwin = q.logic0
    /\ logicpos = q.logic0 + datalength

\* C28 as stated: each frame received while table bytes are pending takes
\* exactly 64 off the pending count, which never wraps below zero.
C28_AsClaimed ==
  [][(cdc = "dispatch" /\ BULK_BUFF_RECV # 0) =>
       /\ BULK_BUFF_RECV >= PacketLen
       /\ BULK_BUFF_RECV' = BULK_BUFF_RECV - PacketLen]_vars

\* C29 as stated: a WaveformSet command selects channel 0 or 1, and every
\* table frame is written inside the selected channel's table; for channel
\* 0 (no WaveformSet for channel 1 handled: numSamples[1] = 0) the write
\* pointer after the copy is at most the size of awg_lut[0].
C29_AsClaimed ==
  /\ (cdc = "dispatch" /\ BULK_BUFF_RECV = 0 /\ rx.tag = 1) =>
       rx.channel \in 0..(AWG_NUM_CHAN - 1)
  /\ (cdc = "return" /\ handled = "Table" /\ numSamples[2] = 0) =>
       BULK_BUFF <= AWG_SAMPLES * 2

\* C30: ADCstate becomes postTrigger only from triggerState, only in a step
\* of the main loop's oscilloscope switch that finds shadowCount at or above
\* the post-trigger count (triggerDuration, 100), and that step stops the
\* ADC; shadowCount is 0 when triggerState is entered.
C30_PostTriggerAfterCount ==
  [][/\ (ADCstate # postTrigger /\ ADCstate' = postTrigger) =>
          /\ ADCstate = triggerState
          /\ pc = "adc" /\ pc' = "logic" /\ cdc = "idle"
          /\ shadowCount >= triggerDurationInit
          /\ ~hw'.adcOn
     /\ (ADCstate # triggerState /\ ADCstate' = triggerState) =>
          shadowCount' = 0]_vars

\* The shadow timer ticked once after the trigger was taken; the next
\* oscilloscope step stopped the ADC and entered postTrigger.
C30_Witness ==
  /\ pc = "logic" /\ ~q.irq /\ q.mode0 = triggerState
  /\ ADCstate = postTrigger /\ ~hw.adcOn
  /\ shadowCount = triggerDurationInit

\* A step of the oscilloscope switch of the main loop, and a step in which
\* the AcquisitionSet branch of the decoder runs.
OscStep == pc = "adc" /\ pc' = "logic"

AcquisitionSetStep == cdc = "dispatch" /\ cdc' = "return" /\ rx.tag = 2

\* C31 as stated: ADCstate leaves postTrigger only with adcpos at capacity,
\* and the step that leaves it resets adcpos, shadowCount, adcsend and
\* triggerType, enters preTrigger, restarts the ADC and re-enables the
\* watchdog interrupt.
C31_AsClaimed ==
  [][(ADCstate = postTrigger /\ ADCstate' # postTrigger) =>
       /\ adcpos >= ADC_BUFF
       /\ adcpos' = 0 /\ shadowCount' = 0 /\ adcsend' = 0 /\ triggerType' = 0
       /\ ADCstate' = preTrigger
       /\ hw'.adcOn /\ hw'.nvicADC1]_vars

\* C31 (amended): ADCstate leaves postTrigger in two kinds of step only.  A
\* step of the main loop's oscilloscope switch leaves it exactly when adcpos
\* is at capacity, and then sets adcpos, shadowCount, adcsend and triggerType
\* to 0, enters preTrigger, restarts the ADC and re-enables the ADC1
\* interrupt; at any other cursor it keeps the phase and the cursor and, when
\* pauseTransmit is 0, sets adcsend.  An AcquisitionSet command leaves it at
\* any cursor, for the phase its trigger mode selects, with adcpos and
\* shadowCount reset and adcsend and triggerType as they were.
C31_PostTriggerCompletion ==
  [][ADCstate = postTrigger =>
       /\ ADCstate' # postTrigger => OscStep \/ AcquisitionSetStep
       /\ (OscStep /\ adcpos >= ADC_BUFF) =>
            /\ adcpos' = 0 /\ shadowCount' = 0 /\ adcsend' = 0
            /\ triggerType' = 0 /\ ADCstate' = preTrigger
            /\ hw'.adcOn /\ hw'.nvicADC1
       /\ (OscStep /\ adcpos < ADC_BUFF) =>
            /\ ADCstate' = postTrigger /\ adcpos' = adcpos
            /\ pauseTransmit = 0 => adcsend' = 1
       /\ AcquisitionSetStep =>
            /\ ADCstate' = TriggerModeState(rx.triggermode)
            /\ adcpos' = 0 /\ shadowCount' = 0
            /\ adcsend' = adcsend /\ triggerType' = triggerType]_vars

\* The iteration that began in postTrigger with the cursor at capacity has
\* run its oscilloscope step: the engine is armed again.
C31_Witness ==
  /\ pc = "logic" /\ ~q.irq /\ q.mode0 = postTrigger /\ q.adc0 = ADC_BUFF
  /\ ADCstate = preTrigger /\ adcpos = 0 /\ shadowCount = 0 /\ adcsend = 0
  /\ triggerType = 0 /\ hw.adcOn /\ hw.nvicADC1

CountdownStep == cdc = "idle" /\ hw.tim16On /\ ~hw'.tim16On

WaveformSetStep == cdc = "dispatch" /\ cdc' = "return" /\ handled' = "WaveformSet"

\* C34: a handled WaveformSet command, for either channel, runs the restart
\* sequence in this order: both timers disabled, both lookup-table transfers
\* stopped and started again, an update event forced on both timers, both
\* counters set, and both timers enabled by the last two operations; from
\* the second disable to the operation before the first enable neither timer
\* is enabled; afterwards both timers run, both transfers have the stored
\* sample counts, and the period, prescaler, compare offset and gain of the
\* channel not selected are as before the command.
C34_RestartSequence ==
  [][WaveformSetStep =>
       LET ops == WaveformSetOps
           n == Len(ops)
           At(k) == RunOps(SubSeq(ops, 1, k),
                           [t |-> AwgParams(tim, rx), dac |-> hw.dacLen],
                           numSamples', phaseARR', ARR_hold')
           Pos(op) == CHOOSE i \in 1..n : ops[i] = op
           Before(A, B) == \A a \in A, b \in B : Pos(a) < Pos(b)
       IN /\ \A op \in {"disable6", "disable7", "dmaStop1", "dmaStop2",
                        "dmaStart1", "dmaStart2", "ug6", "ug7", "cnt6", "cnt7",
                        "enable6", "enable7"} : \E i \in 1..n : ops[i] = op
          /\ Before({"disable6", "disable7"}, {"dmaStop1", "dmaStop2"})
          /\ Before({"dmaStop1", "dmaStop2"}, {"dmaStart1", "dmaStart2"})
          /\ Before({"dmaStart1", "dmaStart2"}, {"ug6", "ug7"})
          /\ Before({"ug6", "ug7"}, {"cnt6", "cnt7"})
          /\ Before({"cnt6", "cnt7"}, {"enable6", "enable7"})
          /\ Pos("enable6") = n - 1 /\ Pos("enable7") = n
          /\ \A k \in 2..(n - 2) : ~At(k).t.t6en /\ ~At(k).t.t7en
          /\ tim' = At(n).t /\ tim'.t6en /\ tim'.t7en
          /\ hw'.dacLen = <<numSamples'[1], numSamples'[2]>>
          /\ IF rx.channel = 0
             THEN /\ tim'.t7arr = tim.t7arr /\ tim'.t7psc = tim.t7psc
                  /\ tim'.ccr2 = tim.ccr2 /\ gpio'.gain[2] = gpio.gain[2]
             ELSE /\ tim'.t6arr = tim.t6arr /\ tim'.t6psc = tim.t6psc
                  /\ tim'.ccr1 = tim.ccr1 /\ gpio'.gain[1] = gpio.gain[1]]_vars

\* WaveformSet for channel 1 handled after power-up: both timers run, timer
\* 7 has the period of the command and timer 6 its start-up period.
C34_Witness ==
  /\ cdc = "return" /\ handled = "WaveformSet" /\ rx.channel = 1
  /\ tim.t6en /\ tim.t7en /\ tim.t7arr = rx.ARR /\ tim.t6arr = InitTim.t6arr
  /\ tim.t6cnt = PhaseCount(0, rx.ARR) /\ hw.dacLen = <<0, rx.numSamples>>

\* C35: in every reachable state adcpos is at most ADC_BUFF and logicpos at
\* most LOGIC_BUFF + datalength, so neither equals the sentinel 40000; and in
\* the data frame just sent a cursor field is 40000 exactly for the
\* subsystem whose ready flag was not set.
C35_SentinelUnambiguous ==
  /\ adcpos <= ADC_BUFF /\ logicpos <= LOGIC_BUFF + datalength
  /\ adcpos # NoData /\ logicpos # NoData
  /\ pc = "advance" =>
       /\ q.frame.adcpos = NoData <=> adcsend # 1
       /\ q.frame.logicpos = NoData <=> logicsend # 1

\* A frame with logic samples only has been sent near the end of the logic
\* stream: its oscilloscope cursor field is the sentinel.
C35_Witness ==
  /\ pc = "advance" /\ q.sent = 1 /\ adcsend = 0 /\ logicsend = 1
  /\ q.frame.adcpos = NoData /\ q.frame.logicpos = LOGIC_BUFF - datalength

\* C36 as stated: when a LogicSet command has been handled, trigPin and
\* trigEdge equal the 16-bit triggerpin and triggeredge fields of the frame,
\* period16, prescaler16 and period32 equal its period fields, and
\* Logicstate is preTrigger.
C36_AsClaimed ==
  (cdc = "return" /\ handled = "LogicSet") =>
    /\ trigPin = rx.triggerpin /\ trigEdge = rx.triggeredge
    /\ period16 = rx.period16 /\ prescaler16 = rx.prescaler
    /\ period32 = rx.period32
    /\ Logicstate = preTrigger

\* C37: after an AcquisitionSet command with trigger mode 1 or 2 and a trigger
\* level L in 0 .. 4095, the thresholds programmed for the selected converter
\* are free of wraparound: watchdog 1 has the window [L-15, L+15] inside
\* 0 .. 4095, watchdog 2 (thresholds in units of 16 counts) has a window
\* inside 0 .. 255 with low <= high, lying entirely below watchdog 1's window
\* in mode 1 and entirely above it in mode 2.
C37_AsClaimed ==
  (/\ cdc = "return" /\ handled = "AcquisitionSet"
   /\ rx.triggermode \in {1, 2} /\ rx.triggerval \in 0..4095) =>
    LET L == rx.triggerval
        th == hw.thr[IF rx.channel = 0 THEN 1 ELSE 2]
    IN /\ th.awd1lo = L - 15 /\ th.awd1hi = L + 15
       /\ th.awd1lo >= 0 /\ th.awd1hi <= 4095
       /\ th.awd2lo >= 0 /\ th.awd2hi <= 255 /\ th.awd2lo <= th.awd2hi
       /\ rx.triggermode = 1 => 16 * th.awd2hi + 15 < th.awd1lo
       /\ rx.triggermode = 2 => 16 * th.awd2lo > th.awd1hi

\* C38: the logic buffer is written only by the capture callback: no step of
\* the main loop and no command handler changes any element of Logic_buff.
C38_AsClaimed ==
  [][(pc' # pc \/ cdc # "idle") => Logic_buff' = Logic_buff]_vars

\* C39: the write index of the logic buffer is in 0 .. LOGIC_BUFF-1 in every
\* state, so every capture callback stores inside Logic_buff; a callback
\* changes no other element, and leaves the index one further, or at 0 when
\* the increment reaches LOGIC_BUFF.
C39_WritePointerInRange ==
  /\ [](logicWritePointer \in 0..(LOGIC_BUFF - 1))
  /\ [][CaptureStep =>
          /\ \A j \in (DOMAIN Logic_buff \cup DOMAIN Logic_buff') \ {logicWritePointer} :
               Load(Logic_buff', j) = Load(Logic_buff, j)
          /\ logicWritePointer' = IF logicWritePointer + 1 = LOGIC_BUFF THEN 0
                                  ELSE logicWritePointer + 1]_vars

\* A capture stored at the last element and the index wrapped to 0.
C39_Witness ==
  /\ logicWritePointer = 0 /\ q.irq
  /\ Load(Logic_buff, LOGIC_BUFF - 1) = 1
  /\ Logicstate = triggerState /\ hw.tim16On

\* ============================ Previous_Designs/Logic-Analyzer (main.c)
mainDesignVars == <<mainVars, logicVars, periphVars, cdcVars, obsVars>>

RECURSIVE BitXor(_, _)
BitXor(a, b) ==
  IF a = 0 /\ b = 0 THEN 0
  ELSE (IF a % 2 # b % 2 THEN 1 ELSE 0) + 2 * BitXor(a \div 2, b \div 2)

\* Process_USB_Command: command 3 with value 1 (trigPin = 1) and command 0
\* (start capture) handled after start-up.
PrevArmed == [PrevBoot EXCEPT !.trigPin = 1, !.pwmOn = TRUE]

\* PrevArmed, then BUFFER_SIZE - 1 captures of a low port, one capture of a
\* high pin 0 (the trigger, taken at index BUFFER_SIZE - 1), and p further
\* captures of a low port while the countdown runs.
PrevTriggered(p) ==
  [PrevArmed EXCEPT
     !.state = triggerState, !.trigger = 1, !.trigPointer = BUFFER_SIZE - 1,
     !.xorResult = 1, !.buffer = Store(Zeroed, BUFFER_SIZE - 1, 1),
     !.bufferPointer = p, !.IncFlag = IF p = BUFFER_SIZE - 1 THEN 1 ELSE 0,
     !.tim16On = TRUE]

\* Values of bufferPointer at which the countdown finds the capture.
FirePointers == { 0, 1, BUFFER_SIZE - 1 }

PrevPortValues == { 0, 1 }

\* ISR for Timer 2: the capture callback of the previous design.
Prev_HAL_TIM_PWM_PulseFinishedCallback(v) ==
  /\ prevDesign.pwmOn
  /\ prevDesign.irq < MaxIrq
  /\ LET d == prevDesign
         old == Load(d.buffer, d.bufferPointer)
         test == d.trigger = 0 /\ d.IncFlag # 0
         xr == BitXor(v, old)
         trigPinCheck == BitAnd(xr, d.trigPin)
         trigEdgeCheck == U16(65535 - BitXor(old, d.trigEdge))
         hit == test /\ BitAnd(trigPinCheck, trigEdgeCheck) > 0
         bp1 == BitAnd(U16(d.bufferPointer + 1), TwelveBit)
     IN prevDesign' =
          [d EXCEPT !.xorResult = IF test THEN xr ELSE @,
                    !.trigger = IF hit THEN 1 ELSE @,
                    !.state = IF hit THEN triggerState ELSE @,
                    !.trigPointer = IF hit THEN d.bufferPointer ELSE @,
                    !.tim16On = IF hit THEN TRUE ELSE @,
                    !.buffer = Store(@, d.bufferPointer, v),
                    !.bufferPointer = bp1,
                    !.IncFlag = IF bp1 = BUFFER_SIZE - 1 THEN 1
                                ELSE IF hit THEN 0 ELSE @,
                    !.irq = @ + 1]
  /\ UNCHANGED mainDesignVars

\* ISR for Timer 16: the countdown callback of the previous design.
Prev_HAL_TIM_PeriodElapsedCallback ==
  /\ prevDesign.tim16On
  /\ prevDesign' = [prevDesign EXCEPT !.pa5 = 1 - @, !.state = postTrigger,
                                      !.val = prevDesign.bufferPointer,
                                      !.pwmOn = FALSE, !.tim16On = FALSE,
                                      !.sent = 0]
  /\ UNCHANGED mainDesignVars

\* One iteration of the while(1) loop of the previous design's main().
Prev_main ==
  /\ LET d == prevDesign
         v0 == IF d.val = BUFFER_SIZE THEN 0 ELSE d.val
         v1 == v0 + 1
         done == v1 = d.bufferPointer
     IN prevDesign' =
          IF d.state # postTrigger THEN d
          ELSE [d EXCEPT !.trigger = 0, !.val = v1, !.idx = v0,
                         !.sent = IF @ > BUFFER_SIZE THEN @ ELSE @ + 1,
                         !.buffer = IF done THEN Zeroed ELSE @,
                         !.pwmOn = IF done THEN TRUE ELSE @,
                         !.state = IF done THEN preTrigger ELSE @]
  /\ UNCHANGED mainDesignVars

InitPrev ==
  \E p \in FirePointers : InitAt([Boot EXCEPT !.prevDesign = PrevTriggered(p)])

NextPrev ==
  \/ Prev_main
  \/ \E v \in PrevPortValues : Prev_HAL_TIM_PWM_PulseFinishedCallback(v)
  \/ Prev_HAL_TIM_PeriodElapsedCallback

\* The main loop never stops and a pending countdown interrupt is served.
SpecPrev ==
  /\ InitPrev
  /\ [][NextPrev]_vars
  /\ WF_vars(Prev_main)
  /\ WF_vars(Prev_HAL_TIM_PeriodElapsedCallback)

\* A step of the streaming pass, and the step that ends it.
PrevSendStep == prevDesign.state = postTrigger /\ prevDesign' # prevDesign
PrevDoneStep == prevDesign.state = postTrigger /\ prevDesign'.state = preTrigger

\* C40: in the previous design, whatever bufferPointer is when the countdown
\* fires, the streaming pass ends: it sends BUFFER_SIZE samples, the k-th one
\* from index (bufferPointer + k) mod BUFFER_SIZE, and then the state is
\* preTrigger again with the capture clock restarted.
C40_AsClaimed ==
  /\ (prevDesign.state = postTrigger) ~> (prevDesign.state = preTrigger)
  /\ [][PrevSendStep =>
          /\ prevDesign.sent < BUFFER_SIZE
          /\ prevDesign'.idx = (prevDesign.bufferPointer + prevDesign.sent) % BUFFER_SIZE]_vars
  /\ [][PrevDoneStep => prevDesign'.sent = BUFFER_SIZE /\ prevDesign'.pwmOn]_vars
====
